---- MODULE Spec2Model ----
(***************************************************************************)
(* A model of the attribution engine of agent-trace-cli:                   *)
(*   - the ledger store and its post-rewrite remapping  (rewrite.py,       *)
(*     ledger.py store_ledger_local / load_local_ledgers)                  *)
(*   - the ledger builder run by the post-commit hook    (ledger.py,       *)
(*     commit_link.py)                                                     *)
(*   - the blame query: segment grouping, ledger lookup, heuristic         *)
(*     scoring and merging                               (blame.py)        *)
(* Python's None is the string NoneVal; dicts are records or functions;    *)
(* lists are sequences.                                                    *)
(***************************************************************************)
EXTENDS Integers, Sequences, FiniteSets, TLC

VARIABLES
    store,      \* .agent-trace/ledgers.jsonl: the sequence of its lines
    rw,         \* the post-rewrite hook's last run(s) on the store
    q,          \* a blame query's inputs: git blame records, ledgers, traces, links
    segs,       \* blame_file: segments = _group_into_segments(records)
    attr,       \* blame_file: what _attribute_locally computed
    out,        \* blame_file: attributions = _merge_attributions(raw_attrs)
    bpc,        \* blame_file: how far the query has got
    events,     \* .agent-trace/traces.jsonl: the recorded traces, oldest first
    head,       \* the HEAD commit as git reports it
    built,      \* what build_attribution_ledger returned, run after run
    clock,      \* the wall clock datetime.now() reads
    commit_links, \* .agent-trace/commit-links.jsonl: the sequence of its lines
    hres,       \* the post-commit hook's last run
    patch,      \* a unified diff of one file, as git prints it, and its parse
    mrg,        \* _merge_attributions on a list of its own: the list and the result
    race,       \* a rewrite running beside store_ledger_local
    sess,       \* hook processes recording traces: session-state.json, traces.jsonl, the processes
    rem,        \* a blame query in remote storage mode
    evid        \* _compute_tier and the evidence gate on two signal lists of one candidate

rwVars == <<store, rw>>
blameVars == <<q, segs, attr, out, bpc>>
ledgerVars == <<events, head, built, clock>>
hookVars == <<commit_links, hres>>
vars == <<store, rw, q, segs, attr, out, bpc, events, head, built, clock, commit_links, hres, patch, mrg, race, sess, rem, evid>>
\* What the post-rewrite hook never touches.
rwOthers == <<blameVars, ledgerVars, hookVars, patch, mrg, race, sess, rem, evid>>
\* What a blame query never touches.
blameOthers == <<rwVars, ledgerVars, hookVars, patch, mrg, race, sess, rem, evid>>
\* What a ledger build never touches.
ledgerOthers == <<rwVars, blameVars, hookVars, patch, mrg, race, sess, rem, evid>>
\* What the post-commit hook never touches.
hookOthers == <<rw, blameVars, ledgerVars, patch, mrg, race, sess, rem, evid>>
\* What merging a list of attributions never touches.
mergeOthers == <<rwVars, blameVars, ledgerVars, hookVars, patch, race, sess, rem, evid>>
\* What printing and parsing a diff never touches.
patchOthers == <<rwVars, blameVars, ledgerVars, hookVars, mrg, race, sess, rem, evid>>
\* What the race of the two hooks on the store never touches.
raceOthers == <<rw, blameVars, ledgerVars, hookVars, patch, mrg, sess, rem, evid>>
\* What recording a trace never touches.
sessOthers == <<rwVars, blameVars, ledgerVars, hookVars, patch, mrg, race, rem, evid>>
\* What grading the signals of a candidate never touches.
tierOthers == <<rwVars, blameVars, ledgerVars, hookVars, patch, mrg, race, sess, rem>>
\* What a blame query in remote mode never touches.
remoteOthers == <<rwVars, blameVars, ledgerVars, hookVars, patch, mrg, race, sess, evid>>

NoneVal == "None"

(***************************************************************************)
(* Generic helpers                                                         *)
(***************************************************************************)
RECURSIVE SeqFilter(_, _)
\* [x for x in s if x \in keep]
SeqFilter(s, keep) ==
    IF s = <<>> THEN <<>>
    ELSE IF Head(s) \in keep THEN <<Head(s)>> \o SeqFilter(Tail(s), keep)
    ELSE SeqFilter(Tail(s), keep)

SeqRange(s) == {s[i] : i \in 1..Len(s)}

\* No commit was made yet: git rev-parse HEAD fails.
NoHead == [commit_sha |-> ""]

\* No trace was recorded, no commit made, no ledger built.
LedgerIdle == events = <<>> /\ head = NoHead /\ built = <<>> /\ clock = 0

\* The post-commit hook has not run.
HookIdle == commit_links = <<>> /\ hres = [ran |-> FALSE]

\* git has printed no diff.
NoPatch == [lines |-> <<>>, parsed |-> FALSE, ranges |-> <<>>]
PatchIdle == patch = NoPatch

\* No blame query is running.
BlameIdle ==
    /\ q = <<>>
    /\ segs = <<>>
    /\ attr = <<>>
    /\ out = <<>>
    /\ bpc = "idle"

\* _merge_attributions has not been called.
NoMerge == [called |-> FALSE, input |-> <<>>, output |-> <<>>]
MergeIdle == mrg = NoMerge

\* No rewrite is in flight and nothing was appended beside one.
NoRace == [pc |-> "idle", map |-> <<>>, ledgers |-> <<>>, stored |-> <<>>]
RaceIdle == race = NoRace

\* The hook processes the coding agent starts, each for one event.
MaxHooks == 3
HookProcs == 1..MaxHooks

\* No hook process has started: no session-state.json, no traces.jsonl.
NoProc == [pc |-> "idle", event |-> "None", session |-> "None",
           state |-> <<>>, seq |-> -2, trace |-> <<>>]
NoSess == [file |-> [whole |-> TRUE, state |-> <<>>], traces |-> <<>>,
           procs |-> [p \in HookProcs |-> NoProc]]
SessIdle == sess = NoSess

\* No blame query in remote mode has run.
NoRemote == [pc |-> "idle", credentials |-> FALSE, service |-> "None",
             ledger_results |-> <<>>, remote_segments |-> <<>>,
             result |-> <<>>]
RemoteIdle == rem = NoRemote

\* No candidate has been graded.
NoGrade == [called |-> FALSE, fewer |-> <<>>, more |-> <<>>,
            fewer_tier |-> 0, more_tier |-> 0]
TierIdle == evid = NoGrade

\* Nothing has run yet.
AllIdle ==
    /\ BlameIdle /\ LedgerIdle /\ HookIdle /\ PatchIdle /\ MergeIdle
    /\ RaceIdle /\ SessIdle /\ RemoteIdle /\ TierIdle

(***************************************************************************)
(* The ledger store                                                        *)
(***************************************************************************)
\* Bounds of the store model.
MaxStore == 3
MaxPairs == 2

\* Commit ids that ledgers and rewrite mappings speak about.
Shas == {"A", "B", "C"}

\* The part of a stored ledger that rewriting must not touch
\* (files, trace_ids, committed_at, created_at, version) as one payload.
Bodies == {"body1", "body2"}

\* A well-formed line of ledgers.jsonl: one JSON ledger.
LedgerLines ==
    {l \in [kind : {"ledger"}, commit_sha : Shas,
             parent_sha : {NoneVal, "A"}, body : Bodies] :
        l.parent_sha # l.commit_sha}

\* A line json.loads rejects.
GarbageLine == [kind |-> "garbage", commit_sha |-> NoneVal,
                parent_sha |-> NoneVal, body |-> NoneVal]

\* The old -> new mappings git hands the post-rewrite hook on stdin:
\* partial functions on the commit ids.
ShaMaps ==
    UNION {[K -> Shas] : K \in {S \in SUBSET Shas : Cardinality(S) <= MaxPairs}}

NoRewrite == [calls |-> 0, map |-> <<>>, ret1 |-> 0, ret2 |-> 0,
              before |-> <<>>, after1 |-> <<>>]

\* What a write that failed midway leaves: the start of a line, without its
\* newline.
PartialLine == [kind |-> "partial", commit_sha |-> NoneVal,
                parent_sha |-> NoneVal, body |-> NoneVal]

\* ledger.py store_ledger_local: append one line; after a partial line the
\* text lands on that line, which json.loads then rejects as a whole.
StoreAppend(s, ledger) ==
    IF s # <<>> /\ s[Len(s)].kind = "partial"
    THEN [s EXCEPT ![Len(s)] = GarbageLine]
    ELSE Append(s, ledger)

\* ledger.py store_ledger_local failing midway: the start of a line is
\* written, or added to the start that is there.
StorePartial(s) ==
    IF s # <<>> /\ s[Len(s)].kind = "partial" THEN s
    ELSE Append(s, PartialLine)

\* The lines both readers keep: json.loads succeeded.
WellFormed(s) == SeqFilter(s, {l \in SeqRange(s) : l.kind = "ledger"})

\* A reader that keeps the first ledger of a commit id.
RECURSIVE LoadFirstFrom(_, _)
LoadFirstFrom(s, acc) ==
    IF s = <<>> THEN acc
    ELSE LET l == Head(s)
             nxt == IF /\ l.kind = "ledger" /\ l.commit_sha # NoneVal
                       /\ l.commit_sha \notin DOMAIN acc
                    THEN [k \in DOMAIN acc \cup {l.commit_sha} |->
                             IF k = l.commit_sha THEN l ELSE acc[k]]
                    ELSE acc
         IN LoadFirstFrom(Tail(s), nxt)

RECURSIVE LoadFrom(_, _)
LoadFrom(s, acc) ==
    IF s = <<>> THEN acc
    ELSE LET l == Head(s)
             nxt == IF l.kind = "ledger" /\ l.commit_sha # NoneVal
                    THEN [k \in DOMAIN acc \cup {l.commit_sha} |->
                             IF k = l.commit_sha THEN l ELSE acc[k]]
                    ELSE acc
         IN LoadFrom(Tail(s), nxt)

\* ledger.py load_local_ledgers: a dict keyed by commit_sha, later lines
\* replacing earlier ones.
load_local_ledgers(s) == LoadFrom(s, <<>>)

\* A remapping that forgets the commit_sha and rewrites only parent_sha.
RemapLedgerParentOnly(l, m) ==
    [l EXCEPT
        !.parent_sha = IF @ # NoneVal /\ @ \in DOMAIN m THEN m[@] ELSE @]

\* rewrite.py lines 62-70: remap one ledger's commit_sha and parent_sha.
RemapLedger(l, m) ==
    [l EXCEPT
        !.commit_sha = IF @ \in DOMAIN m THEN m[@] ELSE @,
        !.parent_sha = IF @ # NoneVal /\ @ \in DOMAIN m THEN m[@] ELSE @]

\* rewrite.py line 61-66: the number of ledgers whose commit_sha is a key.
RemapCount(s, m) ==
    Cardinality({i \in 1..Len(s) :
        s[i].kind = "ledger" /\ s[i].commit_sha \in DOMAIN m})

\* A rewrite that writes the file back whatever it remapped.
RewriteResultAlwaysWrites(s, m) ==
    LET ledgers == WellFormed(s)
    IN IF DOMAIN m = {}
       THEN [store |-> s, ret |-> 0]
       ELSE [store |-> [i \in 1..Len(ledgers) |-> RemapLedger(ledgers[i], m)],
             ret |-> RemapCount(ledgers, m)]

\* rewrite.py rewrite_ledgers: the store it leaves and the count it returns.
RewriteResult(s, m) ==
    LET ledgers == WellFormed(s)
        remapped == RemapCount(ledgers, m)
    IN IF DOMAIN m = {} \/ remapped = 0
       THEN [store |-> s, ret |-> 0]
       ELSE [store |-> [i \in 1..Len(ledgers) |-> RemapLedger(ledgers[i], m)],
             ret |-> remapped]

(***************************************************************************)
(* Actions on the store                                                    *)
(***************************************************************************)
\* A post-commit hook appends the ledger it built.
StoreLedgerLocal ==
    /\ Len(store) < MaxStore
    /\ \E l \in LedgerLines : store' = StoreAppend(store, l)
    /\ rw' = NoRewrite
    /\ UNCHANGED rwOthers

\* A line that is not JSON gets into the file (a torn write, a hand edit).
CorruptAppend ==
    /\ Len(store) < MaxStore
    /\ store' = Append(store, GarbageLine)
    /\ rw' = NoRewrite
    /\ UNCHANGED rwOthers

\* The post-rewrite hook runs with mapping m.
RewriteLedgers ==
    /\ rw.calls = 0
    /\ \E m \in ShaMaps :
        LET r == RewriteResult(store, m)
        IN /\ store' = r.store
           /\ rw' = [calls |-> 1, map |-> m, ret1 |-> r.ret, ret2 |-> 0,
                     before |-> store, after1 |-> r.store]
    /\ UNCHANGED rwOthers

\* The hook runs once more with the same stdin.
RewriteLedgersAgain ==
    /\ rw.calls = 1
    /\ LET r == RewriteResult(store, rw.map)
       IN /\ store' = r.store
          /\ rw' = [rw EXCEPT !.calls = 2, !.ret2 = r.ret]
    /\ UNCHANGED rwOthers

\* The hook process has exited; a later rewrite starts afresh.
RewriteDone ==
    /\ rw.calls > 0
    /\ rw' = NoRewrite
    /\ UNCHANGED store
    /\ UNCHANGED rwOthers

RwInit ==
    /\ store = <<>>
    /\ rw = NoRewrite
    /\ AllIdle

RwNext ==
    \/ StoreLedgerLocal
    \/ CorruptAppend
    \/ RewriteLedgers
    \/ RewriteLedgersAgain
    \/ RewriteDone

SpecRewrite == RwInit /\ [][RwNext]_vars

(***************************************************************************)
(* Claims on the store                                                     *)
(***************************************************************************)
\* The mapping of the last run is one pair a -> b with a # b.
SinglePair(m) ==
    /\ Cardinality(DOMAIN m) = 1
    /\ \A k \in DOMAIN m : m[k] # k

PairOld(m) == CHOOSE k \in DOMAIN m : TRUE

\* The positions of the well-formed ledgers of s keyed by one of ks.
KeyedAt(s, ks) ==
    {i \in 1..Len(s) : s[i].kind = "ledger" /\ s[i].commit_sha \in ks}

LastKeyed(s, ks) ==
    s[CHOOSE i \in KeyedAt(s, ks) : \A j \in KeyedAt(s, ks) : j <= i]

\* C6 (as claimed): for any store and any mapping, chains included, the
\* store after two runs of rewrite_ledgers with the same mapping equals the
\* store after one run.
C6_RewriteIdempotent ==
    rw.calls = 2 => store = rw.after1

\* C7 (as claimed): with a single pair A -> B, A # B, and a ledger stored
\* for A: after the first run the ledger that was read under A is read
\* under B, nothing is keyed by A, the run returns the number of ledgers
\* whose commit_sha was A; the second run returns 0 and changes nothing.
C7_RoundTripOriginal ==
    (rw.calls >= 1 /\ SinglePair(rw.map)
        /\ PairOld(rw.map) \in DOMAIN load_local_ledgers(rw.before)) =>
    LET a == PairOld(rw.map)
        b == rw.map[a]
        was == load_local_ledgers(rw.before)
        now == load_local_ledgers(rw.after1)
    IN /\ b \in DOMAIN now
       /\ now[b] = [was[a] EXCEPT !.commit_sha = b]
       /\ a \notin DOMAIN now
       /\ rw.ret1 = Cardinality(KeyedAt(rw.before, {a}))
       /\ rw.calls = 2 => (rw.ret2 = 0 /\ store = rw.after1)

\* C7 (amended): as above, except that the ledger read under B after the
\* first run is the last ledger of the store that was keyed by A or by B
\* (last write wins), with A replaced by B in its commit_sha and parent_sha:
\* it is the former A ledger unless a ledger keyed by B was stored after it.
C7_RoundTrip ==
    (rw.calls >= 1 /\ SinglePair(rw.map)
        /\ PairOld(rw.map) \in DOMAIN load_local_ledgers(rw.before)) =>
    LET a == PairOld(rw.map)
        b == rw.map[a]
        now == load_local_ledgers(rw.after1)
        last == LastKeyed(rw.before, {a, b})
    IN /\ b \in DOMAIN now
       /\ now[b] = [last EXCEPT
                        !.commit_sha = b,
                        !.parent_sha = IF @ = a THEN b ELSE @]
       /\ a \notin DOMAIN now
       /\ rw.ret1 = Cardinality(KeyedAt(rw.before, {a}))
       /\ rw.calls = 2 => (rw.ret2 = 0 /\ store = rw.after1)

\* A store with two ledgers for A and a later one for B, remapped A -> B
\* and run a second time.
C7_Witness ==
    /\ rw.calls = 2
    /\ SinglePair(rw.map)
    /\ rw.ret1 >= 1
    /\ PairOld(rw.map) \in DOMAIN load_local_ledgers(rw.before)
    /\ rw.map[PairOld(rw.map)] \in DOMAIN load_local_ledgers(rw.before)

(***************************************************************************)
(* The blame query: git blame records and segment grouping  (blame.py)     *)
(***************************************************************************)
\* Bounds of the blame model: lines of the blamed file, and lines of the
\* file as the older commit stored it.
MaxRecords == 3
MaxOrig == 3

\* The blamed file "f" has two commits in its history: c1 (parent p1) and,
\* on top of it, c2 (the HEAD).
BlamePath == "f"

\* blame.py _get_parent_sha: git rev-parse <sha>^
GitParent(c) == IF c = "c1" THEN "p1" ELSE "c1"

\* blame.py _get_commit_date: the author date, in hours.
GitDate(c) == IF c = "c1" THEN 30 ELSE 60

\* The text of line k of the file as commit c stored it.
LineText(c, k) ==
    IF c = "c1" THEN (IF k = 1 THEN "a" ELSE IF k = 2 THEN "b" ELSE "")
    ELSE "n"

\* What git blame can report for the file at HEAD: each line is either a
\* line k of c1 that survived (0 < k, in c1's order) or a line c2 added (0),
\* whose original number is its current number.
BlameShapes(maxN, maxOrig) ==
    {s \in UNION {[1..n -> 0..maxOrig] : n \in 1..maxN} :
        \A i, j \in DOMAIN s : (i < j /\ s[i] # 0 /\ s[j] # 0) => s[i] < s[j]}

\* blame.py _parse_blame_porcelain: the per-line records, in final_line order.
BlameRecords(s) ==
    [i \in DOMAIN s |->
        IF s[i] = 0
        THEN [commit_sha |-> "c2", orig_line |-> i, final_line |-> i,
              content |-> LineText("c2", i)]
        ELSE [commit_sha |-> "c1", orig_line |-> s[i], final_line |-> i,
              content |-> LineText("c1", s[i])]]

\* blame.py lines 230-241: a segment opened by one record.
NewSegment(rec) ==
    [commit_sha |-> rec.commit_sha,
     start_line |-> rec.final_line, end_line |-> rec.final_line,
     orig_start_line |-> rec.orig_line, orig_end_line |-> rec.orig_line,
     content_lines |-> <<rec.content>>]

\* A record continues the segment on its line number alone.
ContinuesByLine(cur, rec) == cur.end_line + 1 = rec.final_line

\* blame.py lines 219-223: the record continues the current segment.
Continues(cur, rec) ==
    /\ cur.commit_sha = rec.commit_sha
    /\ cur.end_line + 1 = rec.final_line

RECURSIVE GroupFrom(_, _)
\* blame.py lines 218-244: the loop; the current segment is the last of acc.
GroupFrom(recs, acc) ==
    IF recs = <<>> THEN acc
    ELSE LET rec == Head(recs)
             n == Len(acc)
         IN IF n > 0 /\ Continues(acc[n], rec)
            THEN GroupFrom(Tail(recs),
                    [acc EXCEPT ![n] =
                        [@ EXCEPT !.end_line = rec.final_line,
                                  !.orig_end_line = rec.orig_line,
                                  !.content_lines = Append(@, rec.content)]])
            ELSE GroupFrom(Tail(recs), Append(acc, NewSegment(rec)))

\* blame.py _group_into_segments
group_into_segments(records) == GroupFrom(records, <<>>)

(***************************************************************************)
(* Content hashes  (trace.py compute_content_hash, blame.py _hashes_match) *)
(***************************************************************************)
\* Hex digits kept of a digest: trace.py line 104, ledger.py line 136.
HashLen == 16

RECURSIVE StripTrailingEmpty(_)
\* "\n".join(lines).rstrip("\n"): trailing empty lines vanish.
StripTrailingEmpty(lines) ==
    IF lines # <<>> /\ lines[Len(lines)] = ""
    THEN StripTrailingEmpty(SubSeq(lines, 1, Len(lines) - 1))
    ELSE lines

\* trace.py compute_content_hash on a block given as its lines. A digest is
\* named by the text it digests (SHA-256 taken as collision free) and by
\* the number of hex digits kept.
compute_content_hash(lines) ==
    [of |-> StripTrailingEmpty(lines), len |-> HashLen]

\* A range that carries no content_hash.
NoHash == [of |-> <<>>, len |-> 0]

\* blame.py _content_hash_for_segment
content_hash_for_segment(content_lines) == compute_content_hash(content_lines)

\* blame.py _hashes_match: equal on the shorter of the two lengths.
hashes_match(a, b) ==
    LET min_len == IF a.len < b.len THEN a.len ELSE b.len
    IN min_len # 0 /\ a.of = b.of

(***************************************************************************)
(* Ledger lookup  (blame.py _attribute_from_ledger)                        *)
(***************************************************************************)
\* tier None
NoTier == 0

RECURSIVE InsertByStart(_, _)
\* One step of a stable sort by start_line.
InsertByStart(sorted, x) ==
    IF sorted = <<>> THEN <<x>>
    ELSE IF x.start_line < Head(sorted).start_line THEN <<x>> \o sorted
    ELSE <<Head(sorted)>> \o InsertByStart(Tail(sorted), x)

RECURSIVE SortByStart(_)
\* sorted(line_attrs, key=start_line)
SortByStart(s) ==
    IF s = <<>> THEN <<>>
    ELSE InsertByStart(SortByStart(SubSeq(s, 1, Len(s) - 1)), s[Len(s)])

\* blame.py _ranges_overlap
ranges_overlap(attr_start, attr_end, seg_start, seg_end) ==
    attr_start <= seg_end /\ attr_end >= seg_start

Max2(a, b) == IF a > b THEN a ELSE b
Min2(a, b) == IF a < b THEN a ELSE b

\* seq[:n] and seq[n:] for n >= 0
PyPrefix(seq, n) == SubSeq(seq, 1, Min2(n, Len(seq)))
PySuffix(seq, n) == SubSeq(seq, Min2(n, Len(seq)) + 1, Len(seq))

RECURSIVE Overlapping(_, _, _)
\* blame.py lines 679-686: the ledger entries meeting the segment, clamped.
Overlapping(las, orig_start, orig_end) ==
    IF las = <<>> THEN <<>>
    ELSE LET la == Head(las)
             rest == Overlapping(Tail(las), orig_start, orig_end)
         IN IF ranges_overlap(la.start_line, la.end_line, orig_start, orig_end)
            THEN <<[s |-> Max2(la.start_line, orig_start),
                    e |-> Min2(la.end_line, orig_end), la |-> la]>> \o rest
            ELSE rest

\* The confidence of a ledger entry, in thousandths.
LedgerConfidence(attr_type) ==
    IF attr_type = "ai" THEN 1000 ELSE IF attr_type = "mixed" THEN 950 ELSE 0

\* blame.py lines 691-717: the attribution emitted for one ledger entry.
LedgerAttribution(seg, ov, offset) ==
    [start_line |-> ov.s + offset,
     end_line |-> ov.e + offset,
     tier |-> IF ov.la.type = "ai" THEN 1
              ELSE IF ov.la.type = "mixed" THEN 3 ELSE NoTier,
     confidence |-> LedgerConfidence(ov.la.type),
     trace_id |-> ov.la.trace_id,
     contributor_type |-> ov.la.type,
     commit_sha |-> seg.commit_sha,
     signals |-> <<"ledger">>,
     source |-> "ledger"]

\* blame.py lines 721-740: the uncovered head and tail of the segment.
GapSegments(seg, ovs, orig_start, orig_end, offset) ==
    LET covered_orig_start == ovs[1].s
        covered_orig_end == ovs[Len(ovs)].e
        before ==
            IF orig_start < covered_orig_start
            THEN <<[seg EXCEPT
                      !.end_line = covered_orig_start + offset - 1,
                      !.orig_start_line = orig_start,
                      !.orig_end_line = covered_orig_start - 1,
                      !.content_lines =
                          PyPrefix(@, covered_orig_start - orig_start)]>>
            ELSE <<>>
        after ==
            IF covered_orig_end < orig_end
            THEN <<[seg EXCEPT
                      !.start_line = covered_orig_end + offset + 1,
                      !.orig_start_line = covered_orig_end + 1,
                      !.orig_end_line = orig_end,
                      !.content_lines =
                          PySuffix(@, covered_orig_end - orig_start + 1)]>>
            ELSE <<>>
    IN before \o after

\* blame.py lines 664-743: one segment against the ledgers.
SegmentFromLedger(seg, ledgers, file_path) ==
    IF seg.commit_sha \in DOMAIN ledgers
        /\ file_path \in DOMAIN ledgers[seg.commit_sha].files
    THEN LET line_attrs == ledgers[seg.commit_sha].files[file_path]
             orig_start == seg.orig_start_line
             orig_end == seg.orig_end_line
             offset == seg.start_line - orig_start
             ovs == Overlapping(SortByStart(line_attrs), orig_start, orig_end)
         IN IF ovs # <<>>
            THEN [attributed |->
                      [i \in 1..Len(ovs) |-> LedgerAttribution(seg, ovs[i], offset)],
                  remaining |->
                      GapSegments(seg, ovs, orig_start, orig_end, offset)]
            ELSE [attributed |-> <<>>, remaining |-> <<seg>>]
    ELSE [attributed |-> <<>>, remaining |-> <<seg>>]

RECURSIVE attribute_from_ledger(_, _, _)
\* blame.py _attribute_from_ledger: (attributed, remaining)
attribute_from_ledger(blame_segments, ledgers, file_path) ==
    IF blame_segments = <<>> THEN [attributed |-> <<>>, remaining |-> <<>>]
    ELSE LET one == SegmentFromLedger(Head(blame_segments), ledgers, file_path)
             rest == attribute_from_ledger(Tail(blame_segments), ledgers, file_path)
         IN [attributed |-> one.attributed \o rest.attributed,
             remaining |-> one.remaining \o rest.remaining]

(***************************************************************************)
(* Heuristic scoring  (blame.py _score_trace_local, _compute_tier)         *)
(***************************************************************************)
WEIGHT_COMMIT_LINK == 40
WEIGHT_CONTENT_HASH == 30
WEIGHT_REVISION_PARENT == 15
WEIGHT_RANGE_MATCH == 10
WEIGHT_RANGE_OVERLAP == 5
WEIGHT_TIMESTAMP == 5

\* blame.py line 532: how far from a range a line still overlaps it.
RangeTolerance == 5
\* blame.py line 832: the time window is searched below this many candidates.
CandidateThreshold == 5
\* blame.py lines 835-836: the window around the commit date, in hours.
WindowBefore == 24
WindowAfter == 1

\* A trace without a timestamp.
NoTs == -1

\* The other paths of the model that end with the path b (str.endswith).
EndsWith(a, b) == a = b \/ b = "" \/ (a = "d/f" /\ b = "f")

\* blame.py lines 378-382 and ledger.py line 174: a trace's path names the file.
PathMatches(trace_path, file_path) ==
    EndsWith(trace_path, file_path) \/ EndsWith(file_path, trace_path)

\* blame.py _find_matching_file: the positions of the matching entries.
MatchingFiles(files, file_path) ==
    {i \in 1..Len(files) : PathMatches(files[i].path, file_path)}

\* blame.py _trace_touches_file
trace_touches_file(trace, file_path) ==
    MatchingFiles(trace.files, file_path) # {}

\* blame.py _find_matching_file, for a trace that touches the file.
find_matching_file(files, file_path) ==
    files[CHOOSE i \in MatchingFiles(files, file_path) :
            \A j \in MatchingFiles(files, file_path) : i <= j]

RECURSIVE RangeSignal(_, _)
\* blame.py lines 526-536: the first range that holds the line or lies
\* within the tolerance of it decides the signal.
RangeSignal(ranges, line_number) ==
    IF ranges = <<>> THEN "none"
    ELSE LET r == Head(ranges)
         IN IF r.start_line <= line_number /\ line_number <= r.end_line
            THEN "range_match"
            ELSE IF (r.start_line - RangeTolerance) <= line_number
                    /\ line_number <= (r.end_line + RangeTolerance)
            THEN "range_overlap"
            ELSE RangeSignal(Tail(ranges), line_number)

\* blame.py _extract_content_hashes: the content hashes of the ranges.
extract_content_hashes(file_entry) ==
    {file_entry.ranges[i].content_hash : i \in 1..Len(file_entry.ranges)}
        \ {NoHash}

\* blame.py _score_trace_local: the signals, in the order they are appended.
TraceSignals(trace, file_path, line_number, content_hash, blame_parent, has_commit_link, linked_trace_ids) ==
    LET touches == trace_touches_file(trace, file_path)
        rs == IF touches
              THEN RangeSignal(find_matching_file(trace.files, file_path).ranges,
                               line_number)
              ELSE "none"
    IN (IF has_commit_link /\ trace.id \in linked_trace_ids
        THEN <<"commit_link">> ELSE <<>>)
       \o (IF trace.revision # "" /\ blame_parent # NoneVal
              /\ trace.revision = blame_parent
           THEN <<"revision_parent">> ELSE <<>>)
       \o (IF rs # "none" THEN <<rs>> ELSE <<>>)
       \o (IF touches /\ content_hash.len # 0
              /\ \E fh \in extract_content_hashes(
                       find_matching_file(trace.files, file_path)) :
                     hashes_match(content_hash, fh)
           THEN <<"content_hash">> ELSE <<>>)
       \o (IF trace.timestamp # NoTs THEN <<"timestamp_match">> ELSE <<>>)

\* The weight each signal adds to the score.
SignalWeight(sig) ==
    CASE sig = "commit_link" -> WEIGHT_COMMIT_LINK
      [] sig = "content_hash" -> WEIGHT_CONTENT_HASH
      [] sig = "revision_parent" -> WEIGHT_REVISION_PARENT
      [] sig = "range_match" -> WEIGHT_RANGE_MATCH
      [] sig = "range_overlap" -> WEIGHT_RANGE_OVERLAP
      [] sig = "timestamp_match" -> WEIGHT_TIMESTAMP

RECURSIVE SumWeights(_)
SumWeights(signals) ==
    IF signals = <<>> THEN 0
    ELSE SignalWeight(Head(signals)) + SumWeights(Tail(signals))

\* blame.py _score_trace_local: (score, signals)
score_trace_local(trace, file_path, line_number, content_hash, blame_parent, has_commit_link, linked_trace_ids) ==
    LET sigs == TraceSignals(trace, file_path, line_number, content_hash,
                             blame_parent, has_commit_link, linked_trace_ids)
    IN [score |-> SumWeights(sigs), signals |-> sigs]

STRUCTURAL ==
    {"commit_link", "content_hash", "revision_parent", "revision_ancestor",
     "range_match", "range_overlap"}

\* A tier that takes "timestamp is never sufficient" for "a timestamp
\* disqualifies".
compute_tier_no_timestamp(score, signals) ==
    IF score <= 0 THEN NoTier
    ELSE IF "timestamp_match" \in SeqRange(signals) THEN NoTier
    ELSE IF score >= 95 /\ "commit_link" \in SeqRange(signals)
            /\ "content_hash" \in SeqRange(signals) THEN 1
    ELSE IF score >= 80 THEN 2
    ELSE IF score >= 60 THEN 3
    ELSE IF score >= 45 THEN 4
    ELSE IF score >= 25 THEN 5
    ELSE 6

\* blame.py _compute_tier
compute_tier(score, signals) ==
    IF score <= 0 THEN NoTier
    ELSE IF SeqRange(signals) \cap STRUCTURAL = {} THEN NoTier
    ELSE IF score >= 95 /\ "commit_link" \in SeqRange(signals)
            /\ "content_hash" \in SeqRange(signals) THEN 1
    ELSE IF score >= 80 THEN 2
    ELSE IF score >= 60 THEN 3
    ELSE IF score >= 45 THEN 4
    ELSE IF score >= 25 THEN 5
    ELSE 6

\* blame.py _tier_to_confidence, in thousandths.
tier_to_confidence(tier) ==
    CASE tier = 1 -> 1000
      [] tier = 2 -> 999
      [] tier = 3 -> 950
      [] tier = 4 -> 850
      [] tier = 5 -> 700
      [] tier = 6 -> 400
      [] OTHER -> 0

(***************************************************************************)
(* Heuristic attribution  (blame.py _attribute_locally)                    *)
(***************************************************************************)
RECURSIVE PickUnseen(_, _, _)
\* The loops of blame.py lines 813-817, 821-829 and 837-849: the eligible
\* traces whose id was not seen, in storage order.
PickUnseen(ts, seen, eligible) ==
    IF ts = <<>> THEN <<>>
    ELSE LET t == Head(ts)
         IN IF t \in eligible /\ t.id \notin seen
            THEN <<t>> \o PickUnseen(Tail(ts), seen \cup {t.id}, eligible)
            ELSE PickUnseen(Tail(ts), seen, eligible)

IdsOf(ts) == {ts[i].id : i \in 1..Len(ts)}

\* blame.py lines 800-804: the trace ids the commit link of the commit lists.
LinkedTraceIds(links, commit_sha) ==
    IF commit_sha \in DOMAIN links THEN links[commit_sha] ELSE {}

\* blame.py lines 807-856: the candidate traces of a segment.
Candidates(seg, traces, links, file_path) ==
    LET linked == LinkedTraceIds(links, seg.commit_sha)
        parent_sha == GitParent(seg.commit_sha)
        commit_date == GitDate(seg.commit_sha)
        all == SeqRange(traces)
        pathA == PickUnseen(traces, {}, {t \in all : t.id \in linked})
        pathB == PickUnseen(traces, IdsOf(pathA),
                    {t \in all : /\ t.revision = parent_sha
                                  /\ trace_touches_file(t, file_path)})
        ab == pathA \o pathB
        pathC == IF Len(ab) < CandidateThreshold
                 THEN PickUnseen(traces, IdsOf(ab),
                        {t \in all : /\ t.timestamp # NoTs
                                      /\ commit_date - WindowBefore <= t.timestamp
                                      /\ t.timestamp <= commit_date + WindowAfter
                                      /\ trace_touches_file(t, file_path)})
                 ELSE <<>>
    IN SeqFilter(ab \o pathC,
                 {t \in all : trace_touches_file(t, file_path)})

RECURSIVE BestFromLast(_, _, _, _, _)
\* A scoring loop in which a candidate wins when it scores at least the
\* best so far.
BestFromLast(cands, i, best, seg, q0) ==
    IF i > Len(cands) THEN best
    ELSE LET sc == score_trace_local(cands[i], q0.file_path,
                       (seg.start_line + seg.end_line) \div 2,
                       content_hash_for_segment(seg.content_lines),
                       GitParent(seg.commit_sha),
                       seg.commit_sha \in DOMAIN q0.links,
                       LinkedTraceIds(q0.links, seg.commit_sha))
         IN IF sc.score >= best.score
            THEN BestFromLast(cands, i + 1,
                    [idx |-> i, score |-> sc.score, signals |-> sc.signals],
                    seg, q0)
            ELSE BestFromLast(cands, i + 1, best, seg, q0)

RECURSIVE BestFrom(_, _, _, _, _)
\* blame.py lines 859-872: a candidate wins when it scores above the best so
\* far; idx is the winner's position among the candidates, 0 for none.
BestFrom(cands, i, best, seg, q0) ==
    IF i > Len(cands) THEN best
    ELSE LET sc == score_trace_local(cands[i], q0.file_path,
                       (seg.start_line + seg.end_line) \div 2,
                       content_hash_for_segment(seg.content_lines),
                       GitParent(seg.commit_sha),
                       seg.commit_sha \in DOMAIN q0.links,
                       LinkedTraceIds(q0.links, seg.commit_sha))
         IN IF sc.score > best.score
            THEN BestFrom(cands, i + 1,
                    [idx |-> i, score |-> sc.score, signals |-> sc.signals],
                    seg, q0)
            ELSE BestFrom(cands, i + 1, best, seg, q0)

\* The winning candidate of a segment.
Best(seg, q0) ==
    BestFrom(Candidates(seg, q0.traces, q0.links, q0.file_path), 1,
             [idx |-> 0, score |-> 0, signals |-> <<>>], seg, q0)

\* blame.py lines 880-885: the evidence a tier must rest on.
HasEvidence(signals) ==
    LET S == SeqRange(signals)
    IN \/ "range_match" \in S \/ "range_overlap" \in S
       \/ ("commit_link" \in S /\ "content_hash" \in S)
       \/ ("commit_link" \in S /\ "revision_parent" \in S)

\* A tier from the score alone.
FinalTierByScore(best) ==
    IF best.score >= 95 THEN 1 ELSE IF best.score >= 80 THEN 2
    ELSE IF best.score >= 60 THEN 3 ELSE IF best.score >= 45 THEN 4
    ELSE IF best.score >= 25 THEN 5 ELSE 6

\* The tier of the winning candidate without the evidence it must rest on.
FinalTierUngated(best) ==
    IF best.idx # 0 /\ best.score > 0
    THEN compute_tier(best.score, best.signals) ELSE NoTier

\* blame.py lines 875-885: the tier of the winning candidate.
FinalTier(best) ==
    LET tier == IF best.idx # 0 /\ best.score > 0
                THEN compute_tier(best.score, best.signals) ELSE NoTier
    IN IF best.idx # 0 /\ tier # NoTier /\ ~HasEvidence(best.signals)
       THEN NoTier ELSE tier

\* blame.py _extract_trace_meta: the contributor type of the matching entry.
MetaContributorType(trace, file_path) ==
    IF trace_touches_file(trace, file_path)
    THEN find_matching_file(trace.files, file_path).ctype
    ELSE "unknown"

\* blame.py lines 887-942: the attribution of one heuristic segment.
HeuristicResult(seg, q0) ==
    LET cands == Candidates(seg, q0.traces, q0.links, q0.file_path)
        best == Best(seg, q0)
        tier == FinalTier(best)
    IN IF best.idx # 0 /\ tier # NoTier
       THEN [start_line |-> seg.start_line, end_line |-> seg.end_line,
             tier |-> tier, confidence |-> tier_to_confidence(tier),
             trace_id |-> cands[best.idx].id,
             contributor_type |->
                 MetaContributorType(cands[best.idx], q0.file_path),
             commit_sha |-> seg.commit_sha,
             signals |-> best.signals, source |-> NoneVal]
       ELSE [start_line |-> seg.start_line, end_line |-> seg.end_line,
             tier |-> NoTier, confidence |-> 0,
             trace_id |-> NoneVal, contributor_type |-> NoneVal,
             commit_sha |-> seg.commit_sha,
             signals |-> <<>>, source |-> NoneVal]

RECURSIVE InsertByLines(_, _)
\* One step of a stable sort by (start_line, end_line).
InsertByLines(sorted, x) ==
    IF sorted = <<>> THEN <<x>>
    ELSE IF \/ x.start_line < Head(sorted).start_line
            \/ (x.start_line = Head(sorted).start_line
                  /\ x.end_line < Head(sorted).end_line)
    THEN <<x>> \o sorted
    ELSE <<Head(sorted)>> \o InsertByLines(Tail(sorted), x)

RECURSIVE SortByLines(_)
\* blame.py line 946
SortByLines(s) ==
    IF s = <<>> THEN <<>>
    ELSE InsertByLines(SortByLines(SubSeq(s, 1, Len(s) - 1)), s[Len(s)])

\* blame.py _attribute_locally
attribute_locally(blame_segments, q0) ==
    LET split == IF DOMAIN q0.ledgers # {}
                 THEN attribute_from_ledger(blame_segments, q0.ledgers,
                                            q0.file_path)
                 ELSE [attributed |-> <<>>, remaining |-> blame_segments]
        results == [i \in 1..Len(split.remaining) |->
                       HeuristicResult(split.remaining[i], q0)]
    IN [ledger_results |-> split.attributed,
        heuristic_segments |-> split.remaining,
        results |-> results,
        all_results |-> SortByLines(split.attributed \o results)]

RECURSIVE MergeFrom(_, _)
\* blame.py lines 960-970
MergeFrom(attributions, merged) ==
    IF attributions = <<>> THEN merged
    ELSE LET entry == Head(attributions)
             n == Len(merged)
         IN IF /\ n > 0
               /\ merged[n].end_line + 1 >= entry.start_line
               /\ merged[n].trace_id = entry.trace_id
               /\ merged[n].tier = entry.tier
            THEN MergeFrom(Tail(attributions),
                    [merged EXCEPT ![n].end_line = entry.end_line])
            ELSE MergeFrom(Tail(attributions), Append(merged, entry))

\* blame.py _merge_attributions
merge_attributions(attributions) == MergeFrom(attributions, <<>>)

(***************************************************************************)
(* The repositories the blame query runs on                                *)
(***************************************************************************)
MaxTraces == 2

\* A merge that joins contiguous lines whatever their type and trace.
RECURSIVE MergeAdjacentFrom(_, _)
MergeAdjacentFrom(line_attrs, segments) ==
    IF line_attrs = <<>> THEN segments
    ELSE LET la == Head(line_attrs)
             n == Len(segments)
         IN IF n > 0 /\ segments[n].end_line + 1 = la.line
            THEN MergeAdjacentFrom(Tail(line_attrs),
                    [segments EXCEPT ![n].end_line = la.line])
            ELSE MergeAdjacentFrom(Tail(line_attrs),
                    Append(segments,
                        [start_line |-> la.line, end_line |-> la.line,
                         type |-> la.type, trace_id |-> la.trace_id]))

merge_adjacent_lines(line_attrs) == MergeAdjacentFrom(line_attrs, <<>>)

\* ledger.py _merge_line_attrs: contiguous lines of one type and trace.
RECURSIVE MergeLineAttrsFrom(_, _)
MergeLineAttrsFrom(line_attrs, segments) ==
    IF line_attrs = <<>> THEN segments
    ELSE LET la == Head(line_attrs)
             n == Len(segments)
         IN IF /\ n > 0
               /\ segments[n].end_line + 1 = la.line
               /\ segments[n].type = la.type
               /\ segments[n].trace_id = la.trace_id
            THEN MergeLineAttrsFrom(Tail(line_attrs),
                    [segments EXCEPT ![n].end_line = la.line])
            ELSE MergeLineAttrsFrom(Tail(line_attrs),
                    Append(segments,
                        [start_line |-> la.line, end_line |-> la.line,
                         type |-> la.type, trace_id |-> la.trace_id]))

merge_line_attrs(line_attrs) == MergeLineAttrsFrom(line_attrs, <<>>)

\* The lines a commit added to the blamed file: c1 created it with MaxOrig
\* lines, c2 added the lines of the shape that are its own.
AddedLines(c, shape, maxOrig) ==
    IF c = "c1" THEN 1..maxOrig ELSE {i \in DOMAIN shape : shape[i] = 0}

\* The ledgers a commit can have on disk: none (the hook was not installed
\* or the build failed), one without the blamed file, or one that
\* attributes added lines.
LedgerKinds == {"absent", "other_file", "human", "ai", "mixed", "alternate",
                "second_only", "ends_only"}

\* ledger.py lines 530-574: the per-line entry of a ledger of the given kind.
KindEntry(kind, ln) ==
    LET ty == CASE kind = "alternate" -> (IF ln % 2 = 1 THEN "ai" ELSE "human")
                [] kind = "second_only" -> "ai"
                [] kind = "ends_only" -> "ai"
                [] OTHER -> kind
    IN [line |-> ln, type |-> ty,
        trace_id |-> IF ty = "human" THEN NoneVal ELSE "t1"]

RECURSIVE KindEntries(_, _, _)
KindEntries(kind, lines, ln) ==
    IF \A k \in lines : k < ln THEN <<>>
    ELSE (IF /\ ln \in lines
             /\ (kind = "second_only" => ln = 2)
             /\ (kind = "ends_only" => ln # 2)
          THEN <<KindEntry(kind, ln)>> ELSE <<>>)
         \o KindEntries(kind, lines, ln + 1)

\* ledger.py lines 580-594: the "files" of a stored ledger.
LedgerFiles(kind, lines) ==
    IF kind = "other_file" \/ KindEntries(kind, lines, 1) = <<>>
    THEN [p \in {"g"} |->
            <<[start_line |-> 1, end_line |-> 1, type |-> "human",
               trace_id |-> NoneVal]>>]
    ELSE [p \in {BlamePath} |-> merge_line_attrs(KindEntries(kind, lines, 1))]

\* ledger.py load_local_ledgers: the ledgers keyed by commit.
LedgersOf(k1, k2, shape, maxOrig) ==
    [c \in {x \in {"c1", "c2"} : (IF x = "c1" THEN k1 ELSE k2) # "absent"} |->
        [files |-> LedgerFiles(IF c = "c1" THEN k1 ELSE k2,
                               AddedLines(c, shape, maxOrig))]]

\* A range of a trace's file entry, and the hash of a block of lines.
TraceRange(a, b, h) == [start_line |-> a, end_line |-> b, content_hash |-> h]

\* The traces of the model, without their id: trace.py create_trace gives a
\* trace its revision, its timestamp (in hours) and one file entry.
TraceTemplates ==
    { [revision |-> "p1", timestamp |-> 20,
       files |-> <<[path |-> "f", ctype |-> "ai", ranges |->
          <<TraceRange(1, 2, compute_content_hash(<<"a", "b">>))>>]>>],
      [revision |-> "", timestamp |-> 20,
       files |-> <<[path |-> "f", ctype |-> "ai", ranges |-> <<>>]>>],
      [revision |-> "", timestamp |-> 55,
       files |-> <<[path |-> "f", ctype |-> "ai", ranges |->
          <<TraceRange(20, 20, NoHash)>>]>>],
      [revision |-> "", timestamp |-> NoTs,
       files |-> <<[path |-> "f", ctype |-> "ai", ranges |->
          <<TraceRange(1, 1, NoHash)>>]>>],
      [revision |-> "c1", timestamp |-> 55,
       files |-> <<[path |-> "f", ctype |-> "ai", ranges |->
          <<TraceRange(20, 20, compute_content_hash(<<"n">>))>>]>>],
      [revision |-> "", timestamp |-> 55,
       files |-> <<[path |-> "g", ctype |-> "ai", ranges |-> <<>>]>>],
      [revision |-> "", timestamp |-> 20,
       files |-> <<[path |-> "d/f", ctype |-> "ai", ranges |->
          <<TraceRange(1, 1, compute_content_hash(<<"a">>))>>]>>],
      [revision |-> "p1", timestamp |-> 100,
       files |-> <<[path |-> "f", ctype |-> "ai", ranges |-> <<>>]>>],
      [revision |-> "", timestamp |-> 55,
       files |-> <<[path |-> "f", ctype |-> "ai", ranges |->
          <<TraceRange(20, 20, compute_content_hash(<<"n">>))>>]>>] }

TraceId(i) == IF i = 1 THEN "t1" ELSE IF i = 2 THEN "t2" ELSE "t3"

\* blame.py _load_local_traces: the stored traces, oldest first.
TraceStores(maxTraces) ==
    UNION {{[i \in 1..n |->
               [id |-> TraceId(i), revision |-> f[i].revision,
                timestamp |-> f[i].timestamp, files |-> f[i].files]] :
            f \in [1..n -> TraceTemplates]} : n \in 0..maxTraces}

\* blame.py _load_local_commit_links: the trace ids linked to each commit.
LinkStores ==
    { <<>>,
      [c \in {"c1"} |-> {"t1"}],
      [c \in {"c2"} |-> {"t1"}],
      [c \in {"c2"} |-> {"t1", "t2"}],
      [c \in {"c1"} |-> {}] }

\* The blame shapes in which one commit wrote every line of the file.
UniformShapes(maxN, maxOrig) ==
    {s \in BlameShapes(maxN, maxOrig) :
        (\A i \in DOMAIN s : s[i] = 0) \/ (\A i \in DOMAIN s : s[i] = i)}

\* Repositories with ledgers: any blame shape, a ledger of any kind for each
\* commit, and at most the trace of the session that wrote c1.
LedgerRepos ==
    {[file_path |-> BlamePath, records |-> BlameRecords(s),
      ledgers |-> LedgersOf(k1, k2, s, MaxOrig), traces |-> ts,
      links |-> <<>>] :
        s \in BlameShapes(MaxRecords, MaxOrig),
        k1 \in LedgerKinds, k2 \in LedgerKinds,
        ts \in {t \in TraceStores(1) : \A i \in DOMAIN t : t[i].revision = "p1"}}

\* Repositories without ledgers: traces and commit links only.
TraceRepos ==
    {[file_path |-> BlamePath, records |-> BlameRecords(s),
      ledgers |-> <<>>, traces |-> ts, links |-> ls] :
        s \in UniformShapes(MaxRecords, MaxOrig),
        ts \in TraceStores(MaxTraces), ls \in LinkStores}

\* blame.py blame_file, local storage: parse, group, attribute, merge.
BlameFile ==
    /\ bpc = "idle"
    /\ \E q0 \in LedgerRepos \cup TraceRepos :
          LET segments == group_into_segments(q0.records)
              raw == attribute_locally(segments, q0)
          IN /\ q' = q0
             /\ segs' = segments
             /\ attr' = raw
             /\ out' = merge_attributions(raw.all_results)
    /\ bpc' = "done"
    /\ UNCHANGED blameOthers

\* The query returns; the next one starts afresh.
BlameReturn ==
    /\ bpc = "done"
    /\ q' = <<>> /\ segs' = <<>> /\ attr' = <<>> /\ out' = <<>>
    /\ bpc' = "idle"
    /\ UNCHANGED blameOthers

BlameInit ==
    /\ store = <<>>
    /\ rw = NoRewrite
    /\ AllIdle

BlameNext == BlameFile \/ BlameReturn

SpecBlame == BlameInit /\ [][BlameNext]_vars

(***************************************************************************)
(* Claims about the blame query                                            *)
(***************************************************************************)
\* The records a segment was grouped from.
RecordsOf(seg) ==
    {i \in DOMAIN q.records :
        seg.start_line <= q.records[i].final_line
        /\ q.records[i].final_line <= seg.end_line}

\* C10: every record grouped into a segment has the segment's offset
\* (final_line - orig_line), so orig_start_line <= orig_end_line and
\* the original span is as long as the current span.
C10_SegmentOffsetConstant ==
    bpc = "done" =>
        \A k \in 1..Len(segs) :
            /\ \A i \in RecordsOf(segs[k]) :
                  q.records[i].final_line - q.records[i].orig_line
                      = segs[k].start_line - segs[k].orig_start_line
            /\ segs[k].orig_start_line <= segs[k].orig_end_line
            /\ segs[k].orig_end_line - segs[k].orig_start_line
                  = segs[k].end_line - segs[k].start_line

\* The ledger ranges of the record's commit that cover the record's line in
\* original numbering.
CoveringRanges(rec) ==
    IF rec.commit_sha \in DOMAIN q.ledgers
        /\ q.file_path \in DOMAIN q.ledgers[rec.commit_sha].files
    THEN {r \in SeqRange(q.ledgers[rec.commit_sha].files[q.file_path]) :
             r.start_line <= rec.orig_line /\ rec.orig_line <= r.end_line}
    ELSE {}

\* The output entries that hold a current line.
EntriesAt(line) ==
    {e \in SeqRange(out) : e.start_line <= line /\ line <= e.end_line}

\* C1: every line covered by a ledger range of its commit is reported by an
\* output entry of source "ledger" whose contributor_type is the range's
\* type, and by no entry of the heuristic path.
C1_LedgerLinesKeepLedgerSource ==
    bpc = "done" =>
        \A i \in DOMAIN q.records :
            \A r \in CoveringRanges(q.records[i]) :
                /\ \E e \in EntriesAt(q.records[i].final_line) :
                      e.source = "ledger" /\ e.contributor_type = r.type
                /\ \A e \in EntriesAt(q.records[i].final_line) :
                      e.source = "ledger"

\* The heuristic segments whose winning candidate matched nothing but the
\* timestamp.
TimestampOnly ==
    {k \in 1..Len(attr.heuristic_segments) :
        LET best == Best(attr.heuristic_segments[k], q)
        IN best.idx # 0 /\ best.signals = <<"timestamp_match">>}

\* C3: a heuristic segment whose winning candidate matched only the
\* timestamp signal is emitted with tier none, confidence 0 and no trace id.
C3_TimestampOnlyIsUnattributed ==
    bpc = "done" =>
        \A k \in TimestampOnly :
            /\ attr.results[k].tier = NoTier
            /\ attr.results[k].confidence = 0
            /\ attr.results[k].trace_id = NoneVal

\* C3 happens: a query whose segment was won by a timestamp-only candidate.
C3_Witness == bpc = "done" /\ TimestampOnly # {}

(***************************************************************************)
(* Building a ledger  (ledger.py)                                          *)
(***************************************************************************)
MaxEvents == 2
MaxClock == 2

\* metadata without edit_sequence
NoSeq == -2

RECURSIVE Flatten(_)
\* The concatenation of a sequence of sequences: nested for loops.
Flatten(ss) == IF ss = <<>> THEN <<>> ELSE Head(ss) \o Flatten(Tail(ss))

\* ledger.py line 136: the hash of one line, which is the hash
\* compute_content_hash gives the block made of that line.
line_hash(line) ==
    [of |-> IF line = "" THEN <<>> ELSE <<line>>, len |-> HashLen]

\* ledger.py lines 472-475
TRIVIAL_HASHES ==
    {line_hash(t) : t \in {"", " ", "\t", "  ", "    ", "\t\t"}}

RECURSIVE ParseFromDelAdvances(_, _, _)
\* A parser for which a deleted line advances the new-side counter as a
\* context line does.
ParseFromDelAdvances(lines, st, ranges) ==
    IF lines = <<>>
    THEN IF st.open THEN Append(ranges, <<st.add_start, st.cur - 1>>)
         ELSE ranges
    ELSE LET line == Head(lines)
             flushed == IF st.open
                        THEN Append(ranges, <<st.add_start, st.cur - 1>>)
                        ELSE ranges
         IN CASE line.k = "hunk" ->
                   ParseFromDelAdvances(Tail(lines),
                       [in_hunk |-> TRUE, cur |-> line.n, open |-> FALSE,
                        add_start |-> 0], flushed)
              [] line.k # "hunk" /\ ~st.in_hunk ->
                   ParseFromDelAdvances(Tail(lines), st, ranges)
              [] line.k = "nonl" /\ st.in_hunk ->
                   ParseFromDelAdvances(Tail(lines), st, ranges)
              [] line.k = "add" /\ st.in_hunk ->
                   ParseFromDelAdvances(Tail(lines),
                       [st EXCEPT !.open = TRUE,
                                  !.add_start = IF st.open THEN @ ELSE st.cur,
                                  !.cur = @ + 1], ranges)
              [] OTHER ->
                   ParseFromDelAdvances(Tail(lines),
                       [st EXCEPT !.open = FALSE, !.cur = @ + 1], flushed)

RECURSIVE ParseFrom(_, _, _)
\* ledger.py lines 77-112: the loop over the lines of the diff; st holds
\* in_hunk, current_new_line and the open add range, if any.
ParseFrom(lines, st, ranges) ==
    IF lines = <<>>
    THEN IF st.open THEN Append(ranges, <<st.add_start, st.cur - 1>>)
         ELSE ranges
    ELSE LET line == Head(lines)
             flushed == IF st.open
                        THEN Append(ranges, <<st.add_start, st.cur - 1>>)
                        ELSE ranges
         IN CASE line.k = "hunk" ->
                   ParseFrom(Tail(lines),
                       [in_hunk |-> TRUE, cur |-> line.n, open |-> FALSE,
                        add_start |-> 0], flushed)
              [] line.k # "hunk" /\ ~st.in_hunk ->
                   ParseFrom(Tail(lines), st, ranges)
              [] line.k = "nonl" /\ st.in_hunk ->
                   ParseFrom(Tail(lines), st, ranges)
              [] line.k = "add" /\ st.in_hunk ->
                   ParseFrom(Tail(lines),
                       [st EXCEPT !.open = TRUE,
                                  !.add_start = IF st.open THEN @ ELSE st.cur,
                                  !.cur = @ + 1], ranges)
              [] line.k = "del" /\ st.in_hunk ->
                   ParseFrom(Tail(lines), [st EXCEPT !.open = FALSE], flushed)
              [] OTHER ->
                   ParseFrom(Tail(lines),
                       [st EXCEPT !.open = FALSE, !.cur = @ + 1], flushed)

\* ledger.py _parse_diff_ranges
parse_diff_ranges(diff_output) ==
    ParseFrom(diff_output,
              [in_hunk |-> FALSE, cur |-> 0, open |-> FALSE, add_start |-> 0],
              <<>>)

\* ledger.py _compute_file_line_hashes: line number -> hash.
compute_file_line_hashes(content) ==
    LET lines == IF content # <<>> /\ content[Len(content)] = ""
                 THEN SubSeq(content, 1, Len(content) - 1) ELSE content
    IN [i \in 1..Len(lines) |-> line_hash(lines[i])]

\* ledger.py lines 170-211 and 236-273: the line hashes a trace records, in
\* the order the loops meet them; any_file drops the test of the path.
TraceHashEntries(trace, file_path, any_file) ==
    Flatten([j \in 1..Len(trace.files) |->
        IF any_file \/ PathMatches(trace.files[j].path, file_path)
        THEN Flatten([k \in 1..Len(trace.files[j].ranges) |->
                [m \in 1..Len(trace.files[j].ranges[k].line_hashes) |->
                    [trace_id |-> trace.id,
                     edit_sequence |-> trace.edit_sequence,
                     hash |-> trace.files[j].ranges[k].line_hashes[m]]]])
        ELSE <<>>])

RECURSIVE IndexFrom(_, _)
\* ledger.py lines 196-211: an entry replaces the one the index holds for
\* its hash only with a higher edit_sequence.
IndexFrom(entries, index) ==
    IF entries = <<>> THEN index
    ELSE LET e == Head(entries)
             h == e.hash
             put == [x \in DOMAIN index \cup {h} |->
                       IF x = h
                       THEN [trace_id |-> e.trace_id,
                             edit_sequence |-> e.edit_sequence]
                       ELSE index[x]]
         IN IF h.len = 0 THEN IndexFrom(Tail(entries), index)
            ELSE IF h \in DOMAIN index
            THEN IF e.edit_sequence # NoSeq
                    /\ (index[h].edit_sequence = NoSeq
                         \/ e.edit_sequence > index[h].edit_sequence)
                 THEN IndexFrom(Tail(entries), put)
                 ELSE IndexFrom(Tail(entries), index)
            ELSE IndexFrom(Tail(entries), put)

\* ledger.py _build_trace_hash_index
build_trace_hash_index(traces, file_path) ==
    IndexFrom(Flatten([i \in 1..Len(traces) |->
                  TraceHashEntries(traces[i], file_path, FALSE)]), <<>>)

\* ledger.py _build_cross_file_hash_index
build_cross_file_hash_index(traces) ==
    IndexFrom(Flatten([i \in 1..Len(traces) |->
                  TraceHashEntries(traces[i], "", TRUE)]), <<>>)

\* ledger.py _build_range_claim_index: the claims on one line, in the order
\* they are appended.
build_range_claim_index(traces, file_path, ln) ==
    Flatten([i \in 1..Len(traces) |->
        Flatten([j \in 1..Len(traces[i].files) |->
            IF PathMatches(traces[i].files[j].path, file_path)
            THEN Flatten([k \in 1..Len(traces[i].files[j].ranges) |->
                    IF traces[i].files[j].ranges[k].start_line <= ln
                        /\ ln <= traces[i].files[j].ranges[k].end_line
                    THEN <<[trace_id |-> traces[i].id,
                            edit_sequence |-> traces[i].edit_sequence]>>
                    ELSE <<>>])
            ELSE <<>>])])

\* ledger.py _find_candidate_traces: (revision_matched, timestamp_matched)
find_candidate_traces(all_traces, parent_sha, committed_at) ==
    LET all == SeqRange(all_traces)
        revision_matched ==
            IF parent_sha # NoneVal
            THEN PickUnseen(all_traces, {},
                     {t \in all : t.revision = parent_sha /\ t.id # ""})
            ELSE <<>>
        timestamp_matched ==
            PickUnseen(all_traces, IdsOf(revision_matched),
                {t \in all : /\ t.timestamp # NoTs
                              /\ committed_at - WindowBefore <= t.timestamp
                              /\ t.timestamp <= committed_at + WindowAfter})
    IN [revision_matched |-> revision_matched,
        timestamp_matched |-> timestamp_matched]

\* ledger.py line 562: the key of a claim, edit_sequence or -1.
ClaimKey(c) ==
    IF c.edit_sequence = NoSeq \/ c.edit_sequence = 0 THEN -1
    ELSE c.edit_sequence

RECURSIVE BestClaim(_, _)
\* ledger.py line 562: max(claims, key=...), the first of the highest key.
BestClaim(claims, best) ==
    IF claims = <<>> THEN best
    ELSE IF ClaimKey(Head(claims)) > ClaimKey(best)
    THEN BestClaim(Tail(claims), Head(claims))
    ELSE BestClaim(Tail(claims), best)

\* One line of a ledger file.
LineAttr(ln, type, trace_id) == [line |-> ln, type |-> type, trace_id |-> trace_id]

\* The attribution of a line without the test for trivial lines.
AttributeLineNoTrivial(ln, h, hash_index, claims) ==
    IF h \in DOMAIN hash_index
    THEN LineAttr(ln, "ai", hash_index[h].trace_id)
    ELSE IF claims # <<>>
    THEN LineAttr(ln, "mixed", BestClaim(Tail(claims), Head(claims)).trace_id)
    ELSE LineAttr(ln, "human", NoneVal)

\* The attribution of a line that asks the range claims before the hashes.
AttributeLineRangeFirst(ln, h, hash_index, claims) ==
    IF h \in TRIVIAL_HASHES THEN LineAttr(ln, "human", NoneVal)
    ELSE IF claims # <<>>
    THEN LineAttr(ln, "mixed", BestClaim(Tail(claims), Head(claims)).trace_id)
    ELSE IF h \in DOMAIN hash_index
    THEN LineAttr(ln, "ai", hash_index[h].trace_id)
    ELSE LineAttr(ln, "human", NoneVal)

\* The attribution of a line that trusts a range claim as it trusts a hash.
AttributeLineClaimIsAi(ln, h, hash_index, claims) ==
    IF h \in TRIVIAL_HASHES THEN LineAttr(ln, "human", NoneVal)
    ELSE IF h \in DOMAIN hash_index
    THEN LineAttr(ln, "ai", hash_index[h].trace_id)
    ELSE IF claims # <<>>
    THEN LineAttr(ln, "ai", BestClaim(Tail(claims), Head(claims)).trace_id)
    ELSE LineAttr(ln, "human", NoneVal)

\* ledger.py lines 530-574: the attribution of one changed line.
AttributeLine(ln, h, hash_index, claims) ==
    IF h \in TRIVIAL_HASHES THEN LineAttr(ln, "human", NoneVal)
    ELSE IF h \in DOMAIN hash_index
    THEN LineAttr(ln, "ai", hash_index[h].trace_id)
    ELSE IF claims # <<>>
    THEN LineAttr(ln, "mixed", BestClaim(Tail(claims), Head(claims)).trace_id)
    ELSE LineAttr(ln, "human", NoneVal)

RECURSIVE SortedSeq(_)
\* sorted(changed_lines)
SortedSeq(S) ==
    IF S = {} THEN <<>>
    ELSE LET m == CHOOSE x \in S : \A y \in S : x <= y
         IN <<m>> \o SortedSeq(S \ {m})

\* ledger.py lines 502-506: the line numbers of the diff ranges.
ChangedLines(file) ==
    UNION {r[1]..r[2] : r \in SeqRange(parse_diff_ranges(file.diff))}

\* "not range_claim_index": no trace claims any line of the file.
HasRangeClaims(traces, file_path) ==
    \E i \in 1..Len(traces) : \E j \in 1..Len(traces[i].files) :
        /\ PathMatches(traces[i].files[j].path, file_path)
        /\ \E k \in 1..Len(traces[i].files[j].ranges) :
              traces[i].files[j].ranges[k].start_line
                  <= traces[i].files[j].ranges[k].end_line

\* A hash index whose fallback reads every candidate at once.
FileHashIndexAllAtOnce(cands, file_path) ==
    LET direct == build_trace_hash_index(
                      cands.revision_matched \o cands.timestamp_matched,
                      file_path)
    IN IF DOMAIN direct = {} /\ ~HasRangeClaims(cands.revision_matched, file_path)
       THEN build_cross_file_hash_index(
                cands.revision_matched \o cands.timestamp_matched)
       ELSE direct

\* ledger.py lines 511-528: the hash index of a file, with its fallbacks.
FileHashIndex(cands, file_path) ==
    LET direct == build_trace_hash_index(
                      cands.revision_matched \o cands.timestamp_matched,
                      file_path)
        cross == build_cross_file_hash_index(cands.revision_matched)
    IN IF DOMAIN direct = {} /\ ~HasRangeClaims(cands.revision_matched, file_path)
       THEN IF DOMAIN cross = {}
            THEN build_cross_file_hash_index(cands.timestamp_matched)
            ELSE cross
       ELSE direct

\* The line attributions of a file when the ranges of every candidate
\* count as claims.
FileLineAttrsAllClaims(file, cands) ==
    IF ~file.exists \/ parse_diff_ranges(file.diff) = <<>> THEN <<>>
    ELSE LET file_line_hashes == compute_file_line_hashes(file.content)
             hash_index == FileHashIndex(cands, file.path)
             lns == SortedSeq(ChangedLines(file) \cap DOMAIN file_line_hashes)
         IN [i \in 1..Len(lns) |->
                AttributeLine(lns[i], file_line_hashes[lns[i]], hash_index,
                    build_range_claim_index(
                        cands.revision_matched \o cands.timestamp_matched,
                        file.path, lns[i]))]

\* ledger.py lines 480-574: the line attributions of one changed file.
FileLineAttrs(file, cands) ==
    IF ~file.exists \/ parse_diff_ranges(file.diff) = <<>> THEN <<>>
    ELSE LET file_line_hashes == compute_file_line_hashes(file.content)
             hash_index == FileHashIndex(cands, file.path)
             lns == SortedSeq(ChangedLines(file) \cap DOMAIN file_line_hashes)
         IN [i \in 1..Len(lns) |->
                AttributeLine(lns[i], file_line_hashes[lns[i]], hash_index,
                    build_range_claim_index(cands.revision_matched,
                                            file.path, lns[i]))]

\* build_attribution_ledger returned None.
NoLedger == [commit_sha |-> NoneVal]

\* ledger.py build_attribution_ledger, run at wall-clock time now.
build_attribution_ledger(hd, all_traces, now) ==
    IF hd.commit_sha = "" THEN NoLedger
    ELSE IF hd.files = <<>> THEN NoLedger
    ELSE LET cands == find_candidate_traces(all_traces, hd.parent_sha,
                                            hd.committed_at)
             attrs == [i \in 1..Len(hd.files) |-> FileLineAttrs(hd.files[i], cands)]
             kept == {i \in 1..Len(hd.files) : attrs[i] # <<>>}
         IN IF kept = {} THEN NoLedger
            ELSE [commit_sha |-> hd.commit_sha,
                  parent_sha |-> hd.parent_sha,
                  committed_at |-> hd.committed_at,
                  created_at |-> now,
                  trace_ids |->
                      UNION {{attrs[i][n].trace_id : n \in 1..Len(attrs[i])} :
                                i \in kept} \ {NoneVal},
                  files |-> [p \in {hd.files[i].path : i \in kept} |->
                      merge_line_attrs(
                          attrs[CHOOSE i \in kept : hd.files[i].path = p])]]

(***************************************************************************)
(* The commits and traces a ledger is built from                           *)
(***************************************************************************)
\* The lines of a unified diff: the hunk header with its new-side start,
\* and the lines that are told apart by their first character.
Hunk(n) == [k |-> "hunk", n |-> n]
DiffLine(k) == [k |-> k, n |-> 0]

\* git show HEAD:f split at "\n" and git diff HEAD^ HEAD -- f, for a file f
\* small enough for one or two hunks.
ChangedFile(content, diff) ==
    [path |-> BlamePath, exists |-> TRUE, content |-> content,
     diff |-> <<DiffLine("meta"), DiffLine("meta")>> \o diff]

\* The commits of the model that have the parent p1.
ChildCommits ==
    { <<ChangedFile(<<"x", "y", "">>,
            <<Hunk(1), DiffLine("add"), DiffLine("add")>>)>>,
      <<ChangedFile(<<"x", "x", "y", "">>,
            <<Hunk(1), DiffLine("add"), DiffLine("add"), DiffLine("add")>>)>>,
      <<ChangedFile(<<"x", "", "y", "">>,
            <<Hunk(1), DiffLine("ctx"), DiffLine("add"), DiffLine("add")>>)>>,
      <<ChangedFile(<<" ", "x", "">>,
            <<Hunk(1), DiffLine("del"), DiffLine("add"), DiffLine("add")>>)>>,
      <<ChangedFile(<<"y", "x", "y", "">>,
            <<Hunk(1), DiffLine("add"), DiffLine("ctx"), DiffLine("add")>>)>>,
      <<ChangedFile(<<"x", "x">>,
            <<Hunk(1), DiffLine("ctx"), DiffLine("del"), Hunk(2),
              DiffLine("add"), DiffLine("nonl")>>)>>,
      <<ChangedFile(<<"x", "">>,
            <<Hunk(1), DiffLine("ctx"), DiffLine("del")>>)>>,
      <<ChangedFile(<<"", "", "">>,
            <<Hunk(1), DiffLine("add"), DiffLine("add")>>)>>,
      <<[path |-> BlamePath, exists |-> FALSE, content |-> <<>>,
         diff |-> <<>>]>>,
      <<>> }

\* The commits without a parent: every line of the file is an addition.
RootCommits ==
    {fs \in ChildCommits :
        fs # <<>> /\ fs[1].exists
        /\ \A i \in 1..Len(fs[1].diff) : fs[1].diff[i].k \in {"meta", "hunk", "add"}}

CommitHour == 50

\* What git reports of HEAD: rev-parse HEAD, rev-parse HEAD^, the author
\* date (in hours) and the changed files.
HeadCommits ==
    {[commit_sha |-> "c1", parent_sha |-> "p1", committed_at |-> CommitHour,
      files |-> fs] : fs \in ChildCommits}
    \cup
    {[commit_sha |-> "c1", parent_sha |-> NoneVal, committed_at |-> CommitHour,
      files |-> fs] : fs \in RootCommits}

\* A range of a trace with the hashes of its lines.
EventRange(a, b, hashes) ==
    [start_line |-> a, end_line |-> b, line_hashes |-> hashes]

\* A trace that touches one file.
Event(revision, timestamp, edit_sequence, path, ranges) ==
    [revision |-> revision, timestamp |-> timestamp,
     edit_sequence |-> edit_sequence,
     files |-> <<[path |-> path, ranges |-> ranges]>>]

\* The traces of the model, without their id.
EventTemplates ==
    { Event("p1", 40, 1, "f", <<EventRange(1, 2, <<line_hash("x")>>)>>),
      Event("p1", 40, 2, "f", <<EventRange(1, 3, <<>>)>>),
      Event("", 40, NoSeq, "f",
            <<EventRange(1, 3, <<line_hash("x"), line_hash("")>>)>>),
      Event("p1", 10, 0, "g", <<EventRange(1, 1, <<line_hash("y")>>)>>),
      Event("", 10, 1, "f",
            <<EventRange(1, 3, <<line_hash("x"), line_hash("y")>>)>>),
      Event("p1", 40, NoSeq, "f",
            <<EventRange(2, 2, <<line_hash(""), line_hash("y")>>)>>),
      Event("p1", NoTs, 1, "f",
            <<EventRange(1, 1, <<[of |-> <<"x">>, len |-> 8]>>)>>),
      Event("p1", 40, 0, "f", <<EventRange(1, 3, <<line_hash("y")>>)>>),
      Event("", 40, 1, "g", <<EventRange(1, 1, <<line_hash("x")>>)>>) }

\* git commit: HEAD becomes one of the commits.
GitCommit ==
    /\ head = NoHead
    /\ head' \in HeadCommits
    /\ built' = <<>>
    /\ UNCHANGED <<events, clock>>
    /\ UNCHANGED ledgerOthers

\* record.py: a hook appends a trace to traces.jsonl.
RecordTrace ==
    /\ Len(events) < MaxEvents
    /\ \E e \in EventTemplates :
          events' = Append(events,
              [id |-> TraceId(Len(events) + 1), revision |-> e.revision,
               timestamp |-> e.timestamp, edit_sequence |-> e.edit_sequence,
               files |-> e.files])
    /\ UNCHANGED <<head, built, clock>>
    /\ UNCHANGED ledgerOthers

\* build_attribution_ledger runs, at the time the clock has reached; the
\* traces it read are kept with its result.
BuildLedger ==
    /\ Len(built) < 2
    /\ \E now \in clock..MaxClock :
          /\ clock' = now
          /\ built' = Append(built,
                 [ledger |-> build_attribution_ledger(head, events, now),
                  events |-> events])
    /\ UNCHANGED <<events, head>>
    /\ UNCHANGED ledgerOthers

LedgerInit ==
    /\ store = <<>>
    /\ rw = NoRewrite
    /\ AllIdle

LedgerNext == GitCommit \/ RecordTrace \/ BuildLedger

SpecLedger == LedgerInit /\ [][LedgerNext]_vars

(***************************************************************************)
(* Claims about the ledger build                                           *)
(***************************************************************************)
\* The changed lines of HEAD that the committed file holds: (file, line).
ChangedHere ==
    IF head = NoHead THEN {}
    ELSE {<<i, ln>> \in (1..Len(head.files)) \X (1..8) :
            /\ head.files[i].exists
            /\ ln \in ChangedLines(head.files[i])
            /\ ln \in DOMAIN compute_file_line_hashes(head.files[i].content)}

\* The hash of a line of a changed file of HEAD.
HashAt(i, ln) == compute_file_line_hashes(head.files[i].content)[ln]

\* The ranges that the b-th build recorded for a line of a file.
Recorded(b, i, ln) ==
    IF built[b].ledger = NoLedger THEN {}
    ELSE IF head.files[i].path \notin DOMAIN built[b].ledger.files THEN {}
    ELSE {r \in SeqRange(built[b].ledger.files[head.files[i].path]) :
             r.start_line <= ln /\ ln <= r.end_line}

\* The candidate traces of the b-th build.
CandidatesOf(b) ==
    find_candidate_traces(built[b].events, head.parent_sha, head.committed_at)

\* The ids of the traces among ts that record the hash h for the file.
HashRecorders(ts, file_path, h) ==
    {ts[n].id : n \in {n \in 1..Len(ts) :
        \E j \in 1..Len(ts[n].files) :
            /\ PathMatches(ts[n].files[j].path, file_path)
            /\ \E k \in 1..Len(ts[n].files[j].ranges) :
                  h \in SeqRange(ts[n].files[j].ranges[k].line_hashes)}}

\* The ids of the traces among ts with a range of the file that holds ln.
ClaimingIds(ts, file_path, ln) ==
    {ts[n].id : n \in {n \in 1..Len(ts) :
        \E j \in 1..Len(ts[n].files) :
            /\ PathMatches(ts[n].files[j].path, file_path)
            /\ \E k \in 1..Len(ts[n].files[j].ranges) :
                  /\ ts[n].files[j].ranges[k].start_line <= ln
                  /\ ln <= ts[n].files[j].ranges[k].end_line}}

\* The builds and changed lines whose hash is trivial.
TrivialCases ==
    {c \in (1..Len(built)) \X ChangedHere :
        HashAt(c[2][1], c[2][2]) \in TRIVIAL_HASHES}

\* C2: a changed line whose hash is in the trivial set is recorded as human
\* with no trace id, whatever hashes and ranges the candidate traces hold.
C2_TrivialLinesAreHuman ==
    \A c \in TrivialCases :
        /\ Recorded(c[1], c[2][1], c[2][2]) # {}
        /\ \A r \in Recorded(c[1], c[2][1], c[2][2]) :
              r.type = "human" /\ r.trace_id = NoneVal

\* C2 happens: a trivial changed line whose hash a candidate trace records
\* and whose number a revision-matched trace claims.
C2_Witness ==
    \E c \in TrivialCases :
        LET cands == CandidatesOf(c[1])
            path == head.files[c[2][1]].path
        IN /\ HashRecorders(cands.revision_matched \o cands.timestamp_matched,
                            path, HashAt(c[2][1], c[2][2])) # {}
           /\ ClaimingIds(cands.revision_matched, path, c[2][2]) # {}

\* The builds and non-trivial changed lines whose hash the hash index lacks
\* and whose number a revision-matched trace claims for the file.
ClaimOnlyCases ==
    {c \in (1..Len(built)) \X ChangedHere :
        LET cands == CandidatesOf(c[1])
            path == head.files[c[2][1]].path
            h == HashAt(c[2][1], c[2][2])
        IN /\ h \notin TRIVIAL_HASHES
           /\ h \notin DOMAIN build_trace_hash_index(
                    cands.revision_matched \o cands.timestamp_matched, path)
           /\ ClaimingIds(cands.revision_matched, path, c[2][2]) # {}}

\* C4: a non-trivial changed line that misses the hash index and lies in a
\* range of a revision-matched trace is recorded as mixed with the id of a
\* trace that claims it, never as ai or human.
C4_RangeClaimIsMixed ==
    \A c \in ClaimOnlyCases :
        /\ Recorded(c[1], c[2][1], c[2][2]) # {}
        /\ \A r \in Recorded(c[1], c[2][1], c[2][2]) :
              /\ r.type = "mixed"
              /\ r.trace_id \in ClaimingIds(CandidatesOf(c[1]).revision_matched,
                                   head.files[c[2][1]].path, c[2][2])

\* C4 happens: a build met a line that only a range claims.
C4_Witness == ClaimOnlyCases # {}

\* The builds and non-trivial changed lines whose hash a candidate trace
\* records for the file.
HashHitCases ==
    {c \in (1..Len(built)) \X ChangedHere :
        LET cands == CandidatesOf(c[1])
            h == HashAt(c[2][1], c[2][2])
        IN /\ h \notin TRIVIAL_HASHES
           /\ HashRecorders(cands.revision_matched \o cands.timestamp_matched,
                            head.files[c[2][1]].path, h) # {}}

\* C5: a non-trivial changed line whose hash a candidate trace records for
\* the file is recorded as ai with the id of a trace that records the hash,
\* also when a range claim covers the line.
C5_HashHitIsAi ==
    \A c \in HashHitCases :
        LET cands == CandidatesOf(c[1])
        IN /\ Recorded(c[1], c[2][1], c[2][2]) # {}
           /\ \A r \in Recorded(c[1], c[2][1], c[2][2]) :
                 /\ r.type = "ai"
                 /\ r.trace_id \in HashRecorders(
                        cands.revision_matched \o cands.timestamp_matched,
                        head.files[c[2][1]].path, HashAt(c[2][1], c[2][2]))

\* C5 happens: a build met a hash hit on a line that a range claim covers.
C5_Witness ==
    \E c \in HashHitCases :
        ClaimingIds(CandidatesOf(c[1]).revision_matched,
                    head.files[c[2][1]].path, c[2][2]) # {}

\* C8: two builds on the same HEAD that read the same traces return the
\* same ledger, field by field.
C8_BuildIsRepeatable ==
    \A a, b \in 1..Len(built) :
        built[a].events = built[b].events
            => built[a].ledger = built[b].ledger

(***************************************************************************)
(* The post-commit hook  (commit_link.py create_commit_link, cli.py)       *)
(***************************************************************************)
MaxLinks == 1

\* The ledger step of a hook without its try/except: an error leaves it.
LedgerStepUnguarded(s, ledger, build, stored) ==
    [store |-> IF build = "ledger" /\ stored = "ok" THEN StoreAppend(s, ledger)
               ELSE IF build = "ledger" /\ stored = "partial"
               THEN StorePartial(s)
               ELSE s,
     raised |-> build = "raise" \/ (build = "ledger" /\ stored # "ok")]

\* commit_link.py lines 270-285: build the ledger and append it, each in a
\* try/except that swallows the error. build is what
\* build_attribution_ledger did (a ledger, None, or an exception), stored
\* what store_ledger_local did (ok, an exception before anything was
\* written, or an exception after part of the line was written).
LedgerStep(s, ledger, build, stored) ==
    [store |-> IF build = "ledger" /\ stored = "ok" THEN StoreAppend(s, ledger)
               ELSE IF build = "ledger" /\ stored = "partial"
               THEN StorePartial(s)
               ELSE s,
     raised |-> FALSE]

\* commit_link.py lines 293-300: the commit link record.
CommitLink(c, parent, trace_ids) ==
    [commit_sha |-> c, parent_sha |-> parent, trace_ids |-> trace_ids]

\* The parent of a commit of the store model: A is the root.
HookParent(c) == IF c = "A" THEN NoneVal ELSE "A"

\* commit_link.py _find_matching_traces_local: the ids it can return; none
\* for a commit without parent.
MatchedTraceIds(c) == IF HookParent(c) = NoneVal THEN {{}} ELSE {{}, {"t1"}}

\* cli.py cmd_commit_link running create_commit_link for HEAD = c.
PostCommitHook ==
    /\ Len(store) < MaxStore
    /\ Len(commit_links) < MaxLinks
    /\ \E c \in Shas \cup {""}, changed \in BOOLEAN, body \in Bodies,
          build \in {"ledger", "none", "raise"},
          stored \in {"ok", "raise", "partial"}, linked \in {"ok", "raise"} :
        \E trace_ids \in MatchedTraceIds(c) :
          LET early == c = "" \/ ~changed
              ledger == [kind |-> "ledger", commit_sha |-> c,
                         parent_sha |-> HookParent(c), body |-> body]
              step == IF early THEN [store |-> store, raised |-> FALSE]
                      ELSE LedgerStep(store, ledger, build, stored)
              links_now == trace_ids # {} /\ ~early /\ ~step.raised
              link_raised == links_now /\ linked = "raise"
          IN /\ store' = step.store
             /\ commit_links' =
                    IF links_now /\ linked = "ok"
                    THEN Append(commit_links,
                                CommitLink(c, HookParent(c), trace_ids))
                    ELSE commit_links
             /\ hres' = [ran |-> TRUE, commit_sha |-> c, early |-> early,
                         trace_ids |-> trace_ids,
                         build |-> IF early THEN "skipped" ELSE build,
                         stored |-> IF early \/ build # "ledger"
                                    THEN "skipped" ELSE stored,
                         linked |-> IF links_now THEN linked ELSE "skipped",
                         create_raised |-> step.raised \/ link_raised,
                         propagated |-> FALSE,
                         store_before |-> store,
                         links_before |-> commit_links]
    /\ UNCHANGED hookOthers

HookInit ==
    /\ store = <<>>
    /\ rw = NoRewrite
    /\ AllIdle

HookNext == PostCommitHook

SpecHook == HookInit /\ [][HookNext]_vars

\* The last hook run met an error while building or storing the ledger.
LedgerFailed ==
    hres.ran /\ (hres.build = "raise" \/ hres.stored \in {"raise", "partial"})

\* C9: when building or storing the ledger fails in the post-commit hook,
\* the error does not leave the hook, no ledger becomes readable for the
\* commit and the ledgers read for the other commits are the same, and the
\* commit link is still appended when traces matched (and its own write
\* did not fail).
C9_LedgerErrorsAreSwallowed ==
    LedgerFailed =>
        /\ ~hres.propagated
        /\ load_local_ledgers(store) = load_local_ledgers(hres.store_before)
        /\ (hres.trace_ids # {} /\ hres.linked # "raise") =>
              commit_links = Append(hres.links_before,
                  CommitLink(hres.commit_sha, HookParent(hres.commit_sha),
                             hres.trace_ids))

\* C9 happens: the ledger step failed in a hook run whose traces matched,
\* with ledgers of other commits already stored.
C9_Witness ==
    /\ LedgerFailed
    /\ hres.trace_ids # {}
    /\ hres.linked = "ok"
    /\ \E k \in DOMAIN load_local_ledgers(hres.store_before) :
          k # hres.commit_sha

(***************************************************************************)
(* Further claims about the ledger store                                   *)
(***************************************************************************)
\* C14: after rewrite_ledgers ran with mapping M, every persisted ledger
\* whose commit_sha was a key of M carries M[old], and every persisted
\* ledger whose parent_sha was a key of M carries M[old parent], the
\* ledgers whose own commit_sha is no key included.
C14_RewriteRemapsCommitAndParent ==
    rw.calls = 1 =>
        LET old == WellFormed(rw.before)
            new == WellFormed(store)
        IN /\ Len(new) = Len(old)
           /\ \A i \in 1..Len(old) :
                 /\ old[i].commit_sha \in DOMAIN rw.map
                       => new[i].commit_sha = rw.map[old[i].commit_sha]
                 /\ old[i].parent_sha \in DOMAIN rw.map
                       => new[i].parent_sha = rw.map[old[i].parent_sha]

\* The places of the store that hold a ledger of commit id sha.
StoredAt(s, sha) ==
    {i \in 1..Len(s) : s[i].kind = "ledger" /\ s[i].commit_sha = sha}

\* What a reader of store s should see: for every commit id that has a
\* ledger line, the last of its lines.
LastWritten(s) ==
    [sha \in {s[i].commit_sha : i \in {j \in 1..Len(s) : s[j].kind = "ledger"}}
        |-> s[CHOOSE i \in StoredAt(s, sha) :
                \A j \in StoredAt(s, sha) : j <= i]]

\* One step of the store seen by the reader: a stored ledger replaces what
\* is read for its commit id and nothing else; a malformed line changes
\* nothing.
StoreStepIsLocal ==
    /\ \A l \in LedgerLines :
          store' = Append(store, l) =>
              load_local_ledgers(store') =
                  [k \in DOMAIN load_local_ledgers(store) \cup {l.commit_sha}
                      |-> IF k = l.commit_sha THEN l
                          ELSE load_local_ledgers(store)[k]]
    /\ store' = Append(store, GarbageLine) =>
          load_local_ledgers(store') = load_local_ledgers(store)

LedgerSegments ==
    {k \in 1..Len(segs) :
        SegmentFromLedger(segs[k], q.ledgers, q.file_path).attributed # <<>>}

\* How many entries of a sequence hold the line, by the named bounds.
HoldersFinal(entries, line) ==
    Cardinality({i \in 1..Len(entries) :
        entries[i].start_line <= line /\ line <= entries[i].end_line})
HoldersOrig(entries, line) ==
    Cardinality({i \in 1..Len(entries) :
        entries[i].orig_start_line <= line /\ line <= entries[i].orig_end_line})

\* A gap segment is clamped to its gap: as many current lines and content
\* lines as original lines, at the segment's offset.
GapClamped(gap, seg) ==
    /\ gap.start_line - gap.orig_start_line = seg.start_line - seg.orig_start_line
    /\ gap.end_line - gap.orig_end_line = seg.start_line - seg.orig_start_line
    /\ Len(gap.content_lines) = gap.orig_end_line - gap.orig_start_line + 1

\* C11: for a segment that a ledger range overlaps, every line of
\* [orig_start, orig_end] lies in exactly one emitted ledger attribution or
\* in exactly one gap segment handed to the heuristic path, and each gap
\* segment is clamped to its gap.
C11_LedgerAccountsForEveryLine ==
    bpc = "done" =>
        \A k \in LedgerSegments :
            LET r == SegmentFromLedger(segs[k], q.ledgers, q.file_path)
                offset == segs[k].start_line - segs[k].orig_start_line
            IN /\ \A ln \in segs[k].orig_start_line..segs[k].orig_end_line :
                     HoldersFinal(r.attributed, ln + offset)
                         + HoldersOrig(r.remaining, ln) = 1
               /\ \A g \in SeqRange(r.remaining) : GapClamped(g, segs[k])

\* The segments that hold a record.
SegmentsOf(i) ==
    {k \in 1..Len(segs) :
        segs[k].start_line <= q.records[i].final_line
        /\ q.records[i].final_line <= segs[k].end_line}

\* C13: the segments are the maximal runs of the records: every record is
\* in exactly one segment, which has its commit and holds its content at
\* its place; the segments follow each other in input order and hold
\* nothing but records; each has as many content_lines as lines; and no
\* segment continues its predecessor (same commit, next line).
C13_SegmentsAreMaximalRuns ==
    bpc = "done" =>
        /\ \A i \in DOMAIN q.records :
              /\ Cardinality(SegmentsOf(i)) = 1
              /\ \A k \in SegmentsOf(i) :
                    /\ segs[k].commit_sha = q.records[i].commit_sha
                    /\ Len(segs[k].content_lines)
                          = segs[k].end_line - segs[k].start_line + 1
                    /\ segs[k].content_lines[
                           q.records[i].final_line - segs[k].start_line + 1]
                          = q.records[i].content
        /\ \A k \in 1..Len(segs) :
              /\ segs[k].start_line <= segs[k].end_line
              /\ \A ln \in segs[k].start_line..segs[k].end_line :
                    \E i \in DOMAIN q.records : q.records[i].final_line = ln
        /\ \A k \in 1..(Len(segs) - 1) :
              /\ segs[k].end_line < segs[k + 1].start_line
              /\ ~(/\ segs[k].commit_sha = segs[k + 1].commit_sha
                   /\ segs[k].end_line + 1 = segs[k + 1].start_line)

\* C13 happens: a run of several lines of one commit next to a segment of
\* the other commit.
C13_Witness ==
    /\ bpc = "done"
    /\ \E k \in 1..(Len(segs) - 1) :
          /\ segs[k].start_line < segs[k].end_line
          /\ segs[k].commit_sha # segs[k + 1].commit_sha

\* The structural signals of the winning candidate of heuristic segment i.
BestStructural(i) ==
    SeqRange(Best(attr.heuristic_segments[i], q).signals) \cap STRUCTURAL

\* C16: a heuristic attribution with a tier has among its signals
\* range_match or range_overlap, or commit_link with content_hash, or
\* commit_link with revision_parent; a winning candidate whose only
\* structural signal is content_hash, or commit_link, or revision_parent,
\* gets no tier.
C16_TierRestsOnEvidence ==
    bpc = "done" =>
        \A i \in 1..Len(attr.results) :
            LET r == attr.results[i]
                S == SeqRange(r.signals)
            IN /\ r.tier # NoTier =>
                     \/ "range_match" \in S
                     \/ "range_overlap" \in S
                     \/ {"commit_link", "content_hash"} \subseteq S
                     \/ {"commit_link", "revision_parent"} \subseteq S
               /\ BestStructural(i) \in {{"content_hash"}, {"commit_link"},
                                          {"revision_parent"}}
                     => r.tier = NoTier /\ r.trace_id = NoneVal

\* C16 happens: the winning candidate of a segment has content_hash as its
\* only structural signal, with a score that would earn a tier.
C16_Witness ==
    /\ bpc = "done"
    /\ \E i \in 1..Len(attr.results) :
          LET best == Best(attr.heuristic_segments[i], q)
          IN /\ best.idx # 0
             /\ BestStructural(i) = {"content_hash"}
             /\ compute_tier(best.score, best.signals) # NoTier
             /\ attr.results[i].tier = NoTier

\* The path by which trace n of the store is a candidate of a segment:
\* 1 by the commit link, 2 by the parent revision, 3 by the time window,
\* 0 when it is no candidate.
CandidateClass(seg, n) ==
    LET t == q.traces[n]
    IN IF ~trace_touches_file(t, q.file_path) THEN 0
       ELSE IF t.id \in LinkedTraceIds(q.links, seg.commit_sha) THEN 1
       ELSE IF t.revision = GitParent(seg.commit_sha) THEN 2
       ELSE IF /\ t.timestamp # NoTs
               /\ GitDate(seg.commit_sha) - WindowBefore <= t.timestamp
               /\ t.timestamp <= GitDate(seg.commit_sha) + WindowAfter THEN 3
       ELSE 0

\* The score and signals of trace n of the store for a segment.
ScoreOf(seg, n) ==
    score_trace_local(q.traces[n], q.file_path,
        (seg.start_line + seg.end_line) \div 2,
        content_hash_for_segment(seg.content_lines),
        GitParent(seg.commit_sha),
        seg.commit_sha \in DOMAIN q.links,
        LinkedTraceIds(q.links, seg.commit_sha))

\* Trace n comes before trace m in candidate order.
ComesBefore(seg, n, m) ==
    \/ CandidateClass(seg, n) < CandidateClass(seg, m)
    \/ CandidateClass(seg, n) = CandidateClass(seg, m) /\ n <= m

\* The candidates of a segment with the highest score, when it is positive.
TopScorers(seg) ==
    {n \in 1..Len(q.traces) :
        /\ CandidateClass(seg, n) # 0
        /\ ScoreOf(seg, n).score > 0
        /\ \A m \in 1..Len(q.traces) :
              CandidateClass(seg, m) # 0
                  => ScoreOf(seg, m).score <= ScoreOf(seg, n).score}

\* The first of the top scorers in candidate order.
FirstTop(seg) ==
    CHOOSE n \in TopScorers(seg) :
        \A m \in TopScorers(seg) : ComesBefore(seg, n, m)

\* signals hold the evidence a tier must rest on.
PassesGates(score, signals) ==
    /\ compute_tier(score, signals) # NoTier
    /\ \/ "range_match" \in SeqRange(signals)
       \/ "range_overlap" \in SeqRange(signals)
       \/ {"commit_link", "content_hash"} \subseteq SeqRange(signals)
       \/ {"commit_link", "revision_parent"} \subseteq SeqRange(signals)

\* C19: the event reported for a heuristic segment is the first candidate
\* in candidate order (commit-linked, then parent-revision, then
\* time-window, each in store order) that attains the highest score; the
\* tier and the evidence are decided on that candidate alone, and the
\* segment is unattributed when it fails them or when no candidate scores.
C19_FirstTopScorerIsReported ==
    bpc = "done" =>
        \A i \in 1..Len(attr.results) :
            LET seg == attr.heuristic_segments[i]
                r == attr.results[i]
            IN IF TopScorers(seg) = {}
               THEN r.tier = NoTier /\ r.trace_id = NoneVal
               ELSE LET w == FirstTop(seg)
                        sc == ScoreOf(seg, w)
                    IN IF PassesGates(sc.score, sc.signals)
                       THEN /\ r.trace_id = q.traces[w].id
                            /\ r.signals = sc.signals
                            /\ r.tier = compute_tier(sc.score, sc.signals)
                       ELSE r.tier = NoTier /\ r.trace_id = NoneVal

\* C19 happens: two candidates of a segment share the highest score and the
\* segment is attributed.
C19_Witness ==
    /\ bpc = "done"
    /\ \E i \in 1..Len(attr.results) :
          /\ Cardinality(TopScorers(attr.heuristic_segments[i])) > 1
          /\ attr.results[i].tier # NoTier

(***************************************************************************)
(* Further claims about the ledger build                                   *)
(***************************************************************************)
\* The builds that returned a ledger, with the changed files it holds:
\* (build, file).
BuiltFiles ==
    IF head = NoHead THEN {}
    ELSE {c \in (1..Len(built)) \X (1..Len(head.files)) :
            /\ built[c[1]].ledger # NoLedger
            /\ head.files[c[2]].path \in DOMAIN built[c[1]].ledger.files}

\* The ranges a build recorded for a file.
RangesOf(c) == built[c[1]].ledger.files[head.files[c[2]].path]

\* The per-line attributions a build computed for a file.
LineAttrsOf(c) == FileLineAttrs(head.files[c[2]], CandidatesOf(c[1]))

\* A sequence of ranges, expanded to (line, type, trace id).
Expanded(rs) ==
    UNION {{<<ln, rs[n].type, rs[n].trace_id>> :
              ln \in rs[n].start_line..rs[n].end_line} : n \in 1..Len(rs)}

\* C12: the ranges of each file of a built ledger are sorted by
\* start_line, have start_line <= end_line, do not overlap, are maximal
\* (no two consecutive ranges are contiguous with the same type and trace
\* id), and expand to exactly the per-line attributions computed.
C12_LedgerRangesAreMaximalRuns ==
    \A c \in BuiltFiles :
        LET rs == RangesOf(c)
            las == LineAttrsOf(c)
        IN /\ rs # <<>>
           /\ \A n \in 1..Len(rs) : rs[n].start_line <= rs[n].end_line
           /\ \A n \in 1..(Len(rs) - 1) :
                 /\ rs[n].end_line < rs[n + 1].start_line
                 /\ ~(/\ rs[n].end_line + 1 = rs[n + 1].start_line
                      /\ rs[n].type = rs[n + 1].type
                      /\ rs[n].trace_id = rs[n + 1].trace_id)
           /\ Expanded(rs) =
                 {<<las[n].line, las[n].type, las[n].trace_id>> : n \in 1..Len(las)}

\* C12 happens: a built file with a range of several lines followed by a
\* contiguous range of another attribution.
C12_Witness ==
    \E c \in BuiltFiles :
        \E n \in 1..(Len(RangesOf(c)) - 1) :
            /\ RangesOf(c)[n].start_line < RangesOf(c)[n].end_line
            /\ RangesOf(c)[n].end_line + 1 = RangesOf(c)[n + 1].start_line

\* The events of the b-th build that have the id tid.
EventsById(b, tid) ==
    {e \in SeqRange(built[b].events) : e.id = tid}

\* The builds and changed lines recorded as mixed.
MixedCases ==
    {c \in (1..Len(built)) \X ChangedHere :
        \E r \in Recorded(c[1], c[2][1], c[2][2]) : r.type = "mixed"}

\* C17: the two candidate lists share no event and the revision-matched
\* ones were recorded at the parent of the commit; the event of a mixed
\* line is a revision-matched event with a range of the file over the line,
\* so its revision is the parent of the commit, and a commit without
\* parent has no mixed line.
C17_RangeClaimsNeedParentRevision ==
    /\ \A b \in {n \in 1..Len(built) : head # NoHead} :
          LET cands == CandidatesOf(b)
          IN /\ IdsOf(cands.revision_matched)
                    \cap IdsOf(cands.timestamp_matched) = {}
             /\ SeqRange(cands.revision_matched)
                    \cap SeqRange(cands.timestamp_matched) = {}
             /\ \A t \in SeqRange(cands.revision_matched) :
                    head.parent_sha # NoneVal /\ t.revision = head.parent_sha
    /\ \A c \in MixedCases :
          /\ head.parent_sha # NoneVal
          /\ \A r \in Recorded(c[1], c[2][1], c[2][2]) :
                /\ r.trace_id \in ClaimingIds(
                       CandidatesOf(c[1]).revision_matched,
                       head.files[c[2][1]].path, c[2][2])
                /\ EventsById(c[1], r.trace_id) # {}
                /\ \A e \in EventsById(c[1], r.trace_id) :
                       e.revision = head.parent_sha

\* The builds and non-trivial changed lines that miss the hash index and
\* lie in a range of a time-window candidate.
WindowClaimCases ==
    {c \in (1..Len(built)) \X ChangedHere :
        LET cands == CandidatesOf(c[1])
            path == head.files[c[2][1]].path
            h == HashAt(c[2][1], c[2][2])
        IN /\ h \notin TRIVIAL_HASHES
           /\ h \notin DOMAIN FileHashIndex(cands, path)
           /\ ClaimingIds(cands.timestamp_matched, path, c[2][2]) # {}}

\* C17 happens: only a time-window candidate claims a line and the line is
\* recorded as human; and where a revision-matched event claims the line
\* as well, the line is mixed.
C17_Witness ==
    /\ \E c \in WindowClaimCases :
          /\ ClaimingIds(CandidatesOf(c[1]).revision_matched,
                         head.files[c[2][1]].path, c[2][2]) = {}
          /\ \E r \in Recorded(c[1], c[2][1], c[2][2]) : r.type = "human"
    /\ \E c \in WindowClaimCases : c \in MixedCases

\* The edit_sequence of the event of the b-th build with id tid, an event
\* without one ranking below every event that has one.
SeqRank(b, tid) ==
    LET e == CHOOSE x \in EventsById(b, tid) : TRUE
    IN IF e.edit_sequence = NoSeq THEN -1 ELSE e.edit_sequence

\* tid is among ids and no id of ids has a higher edit_sequence.
HighestOf(b, tid, ids) ==
    /\ tid \in ids
    /\ \A other \in ids : SeqRank(b, other) <= SeqRank(b, tid)

\* The event of an ai line has the highest edit_sequence among the
\* candidates that record the hash of the line for the file.
HashTieBreak ==
    \A c \in HashHitCases :
        LET cands == CandidatesOf(c[1])
        IN \A r \in Recorded(c[1], c[2][1], c[2][2]) :
              HighestOf(c[1], r.trace_id,
                  HashRecorders(cands.revision_matched \o cands.timestamp_matched,
                      head.files[c[2][1]].path, HashAt(c[2][1], c[2][2])))

\* The event of a mixed line has the highest edit_sequence among the
\* revision-matched events that claim the line.
ClaimTieBreak ==
    \A c \in ClaimOnlyCases :
        \A r \in Recorded(c[1], c[2][1], c[2][2]) :
            HighestOf(c[1], r.trace_id,
                ClaimingIds(CandidatesOf(c[1]).revision_matched,
                            head.files[c[2][1]].path, c[2][2]))

\* C18: among the candidates that record the hash of a line, the event of
\* the ai line is one with the highest edit_sequence, an event with an
\* edit_sequence before one without, whatever the order of the store; and
\* the event of a mixed line is the claiming event with the highest
\* edit_sequence.
C18_HighestEditSequenceWins == HashTieBreak /\ ClaimTieBreak

\* The ids of the traces among ts that record for the file a line hash
\* agreeing with h on the shorter of the two lengths.
PrefixRecorders(ts, file_path, h) ==
    {ts[n].id : n \in {n \in 1..Len(ts) :
        \E j \in 1..Len(ts[n].files) :
            /\ PathMatches(ts[n].files[j].path, file_path)
            /\ \E k \in 1..Len(ts[n].files[j].ranges) :
                  \E lh \in SeqRange(ts[n].files[j].ranges[k].line_hashes) :
                      hashes_match(h, lh)}}

\* C22: the ledger builder matches hashes as _hashes_match does: a
\* non-trivial changed line whose hash agrees, on the shorter of the two
\* lengths, with a line hash that a candidate event records for the file
\* is recorded as ai, also when the recorded hash is a shorter prefix.
C22_LedgerMatchesHashPrefixes ==
    \A c \in (1..Len(built)) \X ChangedHere :
        LET cands == CandidatesOf(c[1])
            h == HashAt(c[2][1], c[2][2])
        IN (/\ h \notin TRIVIAL_HASHES
            /\ PrefixRecorders(cands.revision_matched \o cands.timestamp_matched,
                               head.files[c[2][1]].path, h) # {})
           => /\ Recorded(c[1], c[2][1], c[2][2]) # {}
              /\ \A r \in Recorded(c[1], c[2][1], c[2][2]) : r.type = "ai"

\* The line hashes the traces among ts record, for the file or, with
\* any_file, for whatever file.
RecordedHashes(ts, file_path, any_file) ==
    UNION {SeqRange(ts[n].files[j].ranges[k].line_hashes) :
        <<n, j, k>> \in {x \in (1..Len(ts)) \X (1..2) \X (1..2) :
            /\ x[2] <= Len(ts[x[1]].files)
            /\ x[3] <= Len(ts[x[1]].files[x[2]].ranges)
            /\ (any_file
                  \/ PathMatches(ts[x[1]].files[x[2]].path, file_path))}}

\* The ids of the traces among ts that record the hash h for whatever file.
CrossRecorders(ts, h) ==
    {ts[n].id : n \in {n \in 1..Len(ts) :
        \E j \in 1..Len(ts[n].files) :
            \E k \in 1..Len(ts[n].files[j].ranges) :
                h \in SeqRange(ts[n].files[j].ranges[k].line_hashes)}}

\* No candidate records a line hash for the file of a changed line and no
\* revision-matched candidate claims a line of it: the build falls back
\* on the hashes recorded for other files.
FallsBack(c) ==
    LET cands == CandidatesOf(c[1])
        path == head.files[c[2][1]].path
    IN /\ RecordedHashes(cands.revision_matched \o cands.timestamp_matched,
                         path, FALSE) = {}
       /\ \A ln \in 1..8 : ClaimingIds(cands.revision_matched, path, ln) = {}

\* C23: the hashes recorded for other files are used for a changed file
\* only when no candidate records a hash for the file and no
\* revision-matched candidate claims a line of it; then the hashes of
\* time-window candidates are used only if the revision-matched ones
\* record no line hash at all, and no line of the file is mixed.
C23_CrossFileFallback ==
    \A c \in (1..Len(built)) \X ChangedHere :
        \A r \in Recorded(c[1], c[2][1], c[2][2]) :
            LET cands == CandidatesOf(c[1])
                h == HashAt(c[2][1], c[2][2])
            IN IF FallsBack(c)
               THEN /\ r.type # "mixed"
                    /\ r.type = "ai" =>
                          IF RecordedHashes(cands.revision_matched, "", TRUE) # {}
                          THEN r.trace_id \in
                                   CrossRecorders(cands.revision_matched, h)
                          ELSE r.trace_id \in
                                   CrossRecorders(cands.timestamp_matched, h)
               ELSE r.type = "ai" =>
                        r.trace_id \in HashRecorders(
                            cands.revision_matched \o cands.timestamp_matched,
                            head.files[c[2][1]].path, h)

\* C23 happens: the build fell back on the hashes of other files, a
\* revision-matched candidate gave one line of the file its event, and a
\* line whose hash only a time-window candidate records stayed human.
C23_Witness ==
    /\ \E c \in (1..Len(built)) \X ChangedHere :
          /\ FallsBack(c)
          /\ \E r \in Recorded(c[1], c[2][1], c[2][2]) : r.type = "ai"
    /\ \E c \in (1..Len(built)) \X ChangedHere :
          /\ FallsBack(c)
          /\ HashAt(c[2][1], c[2][2]) \notin TRIVIAL_HASHES
          /\ CrossRecorders(CandidatesOf(c[1]).timestamp_matched,
                            HashAt(c[2][1], c[2][2])) # {}
          /\ \E r \in Recorded(c[1], c[2][1], c[2][2]) : r.type = "human"

\* The ranges of every file of a ledger.
LedgerRanges(ledger) ==
    UNION {SeqRange(ledger.files[p]) : p \in DOMAIN ledger.files}

\* C25: the trace_ids of a built ledger are exactly the ids on its ai and
\* mixed ranges; a human range carries no id, an ai or mixed range carries
\* the id of a trace that was read.
C25_TraceIdsAreTheIdsInUse ==
    \A b \in 1..Len(built) :
        built[b].ledger # NoLedger =>
            LET rs == LedgerRanges(built[b].ledger)
            IN /\ built[b].ledger.trace_ids =
                      {r.trace_id : r \in {r \in rs : r.type \in {"ai", "mixed"}}}
               /\ \A r \in rs :
                     /\ r.type = "human" => r.trace_id = NoneVal
                     /\ r.type \in {"ai", "mixed"} =>
                           r.trace_id \in {built[b].events[n].id :
                                              n \in 1..Len(built[b].events)}

\* C25 happens: a ledger with an ai and a mixed range from different
\* traces.
C25_Witness ==
    \E b \in 1..Len(built) :
        /\ built[b].ledger # NoLedger
        /\ Cardinality(built[b].ledger.trace_ids) = 2
        /\ {"ai", "mixed"} \subseteq
               {r.type : r \in LedgerRanges(built[b].ledger)}

(***************************************************************************)
(* The diff parser on the diffs git prints  (ledger.py _parse_diff_ranges) *)
(***************************************************************************)
\* Bounds: the lines of a diff after its header, and the unchanged lines
\* git leaves out before a hunk.
MaxDiffLines == 5
MaxSkipped == 1

\* The place of the hunk header that line p of a diff belongs to, 0 before
\* the first hunk.
HunkOf(lines, p) ==
    LET hs == {h \in 1..(p - 1) : lines[h].k = "hunk"}
    IN IF hs = {} THEN 0 ELSE CHOOSE h \in hs : \A g \in hs : g <= h

\* The number, in the new file, of the line that place p of a diff shows or
\* would show: the new-side start of its hunk plus the added and context
\* lines of the hunk before it.
NewNumber(lines, p) ==
    LET h == HunkOf(lines, p)
    IN lines[h].n
         + Cardinality({j \in (h + 1)..(p - 1) : lines[j].k \in {"add", "ctx"}})

\* The lines git can print next: header lines before the first hunk; a
\* hunk header once the hunk before it shows a change, starting at or
\* after the line the hunk before it ended with; added, deleted and
\* context lines in a hunk; the no-newline marker after a line.
NextDiffLines(lines) ==
    LET n == Len(lines)
        h == HunkOf(lines, n + 1)
        changed == \E j \in (h + 1)..n : lines[j].k \in {"add", "del"}
        next == IF h = 0 THEN 1 ELSE NewNumber(lines, n + 1)
    IN (IF h = 0 /\ n < 2 THEN {DiffLine("meta")} ELSE {})
       \cup (IF n >= 2 /\ (h = 0 \/ changed)
             THEN {Hunk(m) : m \in (IF h = 0 THEN next ELSE next + 1)
                                       ..(next + 1 + MaxSkipped)}
             ELSE {})
       \cup (IF h # 0 THEN {DiffLine("add"), DiffLine("del"), DiffLine("ctx")}
             ELSE {})
       \cup (IF h # 0 /\ lines[n].k \in {"add", "del", "ctx"}
             THEN {DiffLine("nonl")} ELSE {})

\* Every hunk of the diff shows a change.
CompleteDiff(lines) ==
    \A h \in 1..Len(lines) :
        lines[h].k = "hunk" =>
            \E j \in (h + 1)..Len(lines) :
                /\ HunkOf(lines, j) = h
                /\ lines[j].k \in {"add", "del"}

\* git diff prints one more line.
GitDiffLine ==
    /\ ~patch.parsed
    /\ Len(patch.lines) < 2 + MaxDiffLines
    /\ \E l \in NextDiffLines(patch.lines) :
          patch' = [patch EXCEPT !.lines = Append(@, l)]
    /\ UNCHANGED patchOthers

\* ledger.py line 499: _parse_diff_ranges on the output of git diff, whose
\* text ends with a newline: split("\n") yields an empty last piece.
ParseDiff ==
    /\ ~patch.parsed
    /\ CompleteDiff(patch.lines)
    /\ patch' = [patch EXCEPT
                    !.parsed = TRUE,
                    !.ranges = parse_diff_ranges(
                                   patch.lines \o <<DiffLine("empty")>>)]
    /\ UNCHANGED patchOthers

\* The next file's diff.
NextPatch ==
    /\ patch.parsed
    /\ patch' = NoPatch
    /\ UNCHANGED patchOthers

PatchInit ==
    /\ store = <<>>
    /\ rw = NoRewrite
    /\ AllIdle

PatchNext == GitDiffLine \/ ParseDiff \/ NextPatch

SpecDiff == PatchInit /\ [][PatchNext]_vars

\* The new-side numbers of the added lines of a diff.
AddedNumbers(lines) ==
    {NewNumber(lines, p) :
        p \in {x \in 1..Len(lines) :
                  lines[x].k = "add" /\ HunkOf(lines, x) # 0}}

\* The line numbers a sequence of (start, end) pairs covers.
Covered(ranges) == UNION {r[1]..r[2] : r \in SeqRange(ranges)}

\* C20: the ranges _parse_diff_ranges returns for a diff cover exactly the
\* new-side numbers of the added lines of its hunks (so no context line
\* and no deleted line contributes, and a deleted line does not advance
\* the numbering); each range has start <= end, and the ranges ascend
\* without overlap.
C20_RangesAreTheAddedLines ==
    patch.parsed =>
        /\ Covered(patch.ranges) = AddedNumbers(patch.lines)
        /\ \A n \in 1..Len(patch.ranges) :
              patch.ranges[n][1] <= patch.ranges[n][2]
        /\ \A n \in 1..(Len(patch.ranges) - 1) :
              patch.ranges[n][2] < patch.ranges[n + 1][1]

\* C20 happens: a parsed diff with two ranges, with a deleted line before
\* an added one and a context line in a hunk.
C20_Witness ==
    /\ patch.parsed
    /\ Len(patch.ranges) >= 2
    /\ \E i, j, k \in 1..Len(patch.lines) :
          /\ i < j
          /\ patch.lines[i].k = "del" /\ patch.lines[j].k = "add"
          /\ HunkOf(patch.lines, i) = HunkOf(patch.lines, j)
          /\ patch.lines[k].k = "ctx"

(***************************************************************************)
(* _merge_attributions on any sorted list  (blame.py lines 955-971)        *)
(***************************************************************************)
\* Bounds: the entries of a list and the lines of the file.
MaxMergeEntries == 3
MaxMergeLine == 4

\* The attributions an entry can carry: none, or a trace with a tier.
MergeEntries ==
    {e \in [start_line : 1..MaxMergeLine, end_line : 1..MaxMergeLine,
             tier : {NoTier, 1, 3}, trace_id : {NoneVal, "t1", "t2"}] :
        /\ e.start_line <= e.end_line
        /\ (e.tier = NoTier) = (e.trace_id = NoneVal)
        /\ (e.trace_id = "t2" => e.tier = 1)}

\* blame.py line 946: the order of (start_line, end_line).
SortedByLines(l) ==
    \A i \in 1..(Len(l) - 1) :
        \/ l[i].start_line < l[i + 1].start_line
        \/ /\ l[i].start_line = l[i + 1].start_line
           /\ l[i].end_line <= l[i + 1].end_line

\* The lists _merge_attributions can be handed: sorted by
\* (start_line, end_line).
SortedLists ==
    UNION {{l \in [1..n -> MergeEntries] : SortedByLines(l)} :
              n \in 0..MaxMergeEntries}

\* _merge_attributions is called on a sorted list.
MergeCall ==
    /\ ~mrg.called
    /\ \E l \in SortedLists :
          mrg' = [called |-> TRUE, input |-> l,
                  output |-> merge_attributions(l)]
    /\ UNCHANGED mergeOthers

\* The caller drops the result.
MergeReturn ==
    /\ mrg.called
    /\ mrg' = NoMerge
    /\ UNCHANGED mergeOthers

MergeInit ==
    /\ store = <<>>
    /\ rw = NoRewrite
    /\ AllIdle

MergeNext == MergeCall \/ MergeReturn

SpecMerge == MergeInit /\ [][MergeNext]_vars

\* The lines a list of entries covers.
LinesOf(l) == UNION {l[i].start_line..l[i].end_line : i \in 1..Len(l)}

\* Entry a lies within entry b and has its attribution.
Within(a, b) ==
    /\ b.start_line <= a.start_line /\ a.end_line <= b.end_line
    /\ a.trace_id = b.trace_id /\ a.tier = b.tier

\* C21: the merged list covers the lines of its input and no others; no
\* entry shrinks (every input entry lies within an output entry of its
\* trace_id and tier); no two consecutive output entries have equal
\* trace_id and tier with the second starting at or before the end of the
\* first plus one; entries of different trace_id or tier are never merged
\* (every line of an output entry comes from an input entry of its
\* trace_id and tier).
C21_MergeKeepsCoverage ==
    mrg.called =>
        /\ LinesOf(mrg.output) = LinesOf(mrg.input)
        /\ \A i \in 1..Len(mrg.input) :
              \E j \in 1..Len(mrg.output) : Within(mrg.input[i], mrg.output[j])
        /\ \A j \in 1..(Len(mrg.output) - 1) :
              ~(/\ mrg.output[j].trace_id = mrg.output[j + 1].trace_id
                /\ mrg.output[j].tier = mrg.output[j + 1].tier
                /\ mrg.output[j + 1].start_line <= mrg.output[j].end_line + 1)
        /\ \A j \in 1..Len(mrg.output) :
              \A ln \in mrg.output[j].start_line..mrg.output[j].end_line :
                  \E i \in 1..Len(mrg.input) :
                      /\ mrg.input[i].start_line <= ln
                      /\ ln <= mrg.input[i].end_line
                      /\ mrg.input[i].trace_id = mrg.output[j].trace_id
                      /\ mrg.input[i].tier = mrg.output[j].tier

(***************************************************************************)
(* rewrite_ledgers beside store_ledger_local                               *)
(***************************************************************************)
\* Ledgers appended while the post-rewrite hook may be running.
MaxStored == 2

\* ledger.py store_ledger_local in the post-commit hook: one line is
\* appended to ledgers.jsonl.
RaceStore ==
    /\ Len(race.stored) < MaxStored
    /\ \E l \in LedgerLines :
          /\ store' = StoreAppend(store, l)
          /\ race' = [race EXCEPT !.stored = Append(@, l)]
    /\ UNCHANGED raceOthers

\* rewrite.py lines 47-76: the post-rewrite hook reads the whole file and
\* remaps the ledgers in memory; it returns when nothing was remapped.
RaceRead ==
    /\ race.pc = "idle"
    /\ \E m \in ShaMaps :
          LET ledgers == WellFormed(store)
          IN race' = [race EXCEPT
                 !.pc = IF DOMAIN m = {} \/ RemapCount(ledgers, m) = 0
                        THEN "done" ELSE "read",
                 !.map = m,
                 !.ledgers = [i \in 1..Len(ledgers) |->
                                 RemapLedger(ledgers[i], m)]]
    /\ UNCHANGED store
    /\ UNCHANGED raceOthers

\* rewrite.py lines 78-81: the file is opened for writing and the ledgers
\* held in memory are written back.
RaceWrite ==
    /\ race.pc = "read"
    /\ store' = race.ledgers
    /\ race' = [race EXCEPT !.pc = "done"]
    /\ UNCHANGED raceOthers

RaceInit ==
    /\ store = <<>>
    /\ rw = NoRewrite
    /\ AllIdle

RaceNext == RaceStore \/ RaceRead \/ RaceWrite

SpecRace == RaceInit /\ [][RaceNext]_vars

\* The commit ids a stored ledger may be found under: its own, or the one
\* the running rewrite maps it to.
FoundUnder(l) ==
    {l.commit_sha} \cup
    (IF l.commit_sha \in DOMAIN race.map THEN {race.map[l.commit_sha]} ELSE {})

\* C26: whatever the interleaving of store_ledger_local with a running
\* rewrite_ledgers, every ledger that was stored is in the store under its
\* own or its remapped commit id.
C26_NoStoredLedgerIsLost ==
    \A n \in 1..Len(race.stored) :
        \E i \in 1..Len(store) : store[i].commit_sha \in FoundUnder(race.stored[n])

(***************************************************************************)
(* Hook processes that record traces                                       *)
(***************************************************************************)
\* conversation_id (Cursor) or session_id (Claude Code) of an event.
Sessions == {"s1", "s2"}

\* The hook events of the model: hook_event_name, with tool_name for
\* PostToolUse.
FileEditEvents ==
    {"afterFileEdit", "afterTabFileEdit", "PostToolUse:Write", "PostToolUse:Edit"}
HookEvents == FileEditEvents \cup {"PostToolUse:Read", "sessionStart"}

\* record.py lines 88-116, 174-207: the handlers that ask for a sequence
\* number before they build the trace.
AsksSequence(event) == event \in FileEditEvents

\* record.py lines 176-180: PostToolUse of another tool returns no trace.
ReturnsNone(event) == event = "PostToolUse:Read"

\* trace.py lines 143-152: the keyword parameters of create_trace.
create_trace_keywords ==
    {"model", "range_positions", "range_contents", "transcript", "metadata"}

\* record.py lines 94-101, 109-115, 194-206, 134-144: the keywords a
\* handler calls create_trace with.
KeywordsOf(event) ==
    IF event \in {"afterFileEdit", "PostToolUse:Write", "PostToolUse:Edit"}
    THEN {"model", "range_positions", "range_contents", "transcript",
          "metadata", "edit_sequence"}
    ELSE IF event = "afterTabFileEdit"
    THEN {"model", "range_positions", "range_contents", "metadata",
          "edit_sequence"}
    ELSE {"model", "metadata"}

\* record.py lines 37-45: state.get(key, 0) on what json.loads gave; a
\* file that is missing or does not parse gives the empty dict.
StateGet(state, key) == IF key \in DOMAIN state THEN state[key] ELSE 0

\* record.py line 46: state[key] = seq + 1.
StatePut(state, key, v) ==
    [k \in DOMAIN state \cup {key} |-> IF k = key THEN v ELSE state[k]]

\* record_from_stdin reads one event from stdin and finds its handler.
HookEvent(p) ==
    /\ sess.procs[p].pc = "idle"
    /\ \E e \in HookEvents, sid \in Sessions :
          sess' = [sess EXCEPT !.procs[p] =
                      [@ EXCEPT !.pc = "handler", !.event = e, !.session = sid]]
    /\ UNCHANGED sessOthers

\* record.py lines 37-42: _get_next_sequence reads session-state.json.
SeqRead(p) ==
    /\ sess.procs[p].pc = "handler"
    /\ AsksSequence(sess.procs[p].event)
    /\ sess' = [sess EXCEPT !.procs[p] =
                   [@ EXCEPT !.pc = "read",
                             !.state = IF sess.file.whole
                                       THEN sess.file.state ELSE <<>>]]
    /\ UNCHANGED sessOthers

\* record.py line 49: write_text opens the file for writing, which empties
\* it.
SeqTruncate(p) ==
    /\ sess.procs[p].pc = "read"
    /\ sess' = [sess EXCEPT !.procs[p].pc = "truncated",
                            !.file = [whole |-> FALSE, state |-> <<>>]]
    /\ UNCHANGED sessOthers

\* record.py lines 44-53: the state with the incremented counter is
\* written and the number read is returned.
SeqWrite(p) ==
    /\ sess.procs[p].pc = "truncated"
    /\ LET key == sess.procs[p].session
           seq == StateGet(sess.procs[p].state, key)
       IN sess' = [sess EXCEPT
              !.procs[p] = [@ EXCEPT !.pc = "sequenced", !.seq = seq],
              !.file = [whole |-> TRUE,
                        state |-> StatePut(sess.procs[p].state, key, seq + 1)]]
    /\ UNCHANGED sessOthers

\* record.py lines 176-180: the handler returns no trace and
\* record_from_stdin returns.
HandlerReturnsNone(p) ==
    /\ sess.procs[p].pc = "handler"
    /\ ReturnsNone(sess.procs[p].event)
    /\ sess' = [sess EXCEPT !.procs[p].pc = "done"]
    /\ UNCHANGED sessOthers

\* The handler calls create_trace: a keyword the function does not have
\* raises TypeError, which cmd_record swallows (cli.py lines 271-276);
\* otherwise the trace is built, with the metadata the function keeps.
CreateTrace(p) ==
    /\ \/ sess.procs[p].pc = "sequenced"
       \/ /\ sess.procs[p].pc = "handler"
          /\ ~AsksSequence(sess.procs[p].event)
          /\ ~ReturnsNone(sess.procs[p].event)
    /\ sess' = [sess EXCEPT !.procs[p] =
          IF KeywordsOf(sess.procs[p].event) \subseteq create_trace_keywords
          THEN [@ EXCEPT !.pc = "created",
                         !.trace = <<[by |-> p, event |-> sess.procs[p].event,
                                      edit_sequence |-> NoSeq]>>]
          ELSE [@ EXCEPT !.pc = "done"]]
    /\ UNCHANGED sessOthers

\* record.py lines 224-231: _store_local appends the trace to
\* traces.jsonl.
StoreLocal(p) ==
    /\ sess.procs[p].pc = "created"
    /\ sess' = [sess EXCEPT !.procs[p].pc = "done",
                            !.traces = @ \o sess.procs[p].trace]
    /\ UNCHANGED sessOthers

RecordInit ==
    /\ store = <<>>
    /\ rw = NoRewrite
    /\ AllIdle

RecordNext ==
    \E p \in HookProcs :
        \/ HookEvent(p)
        \/ SeqRead(p)
        \/ SeqTruncate(p)
        \/ SeqWrite(p)
        \/ HandlerReturnsNone(p)
        \/ CreateTrace(p)
        \/ StoreLocal(p)

SpecRecord == RecordInit /\ [][RecordNext]_vars

\* The processes whose call of _get_next_sequence for a session returned.
Returned(sid) ==
    {p \in HookProcs : sess.procs[p].session = sid /\ sess.procs[p].seq # NoSeq}

\* A call of _get_next_sequence is between its read and its write.
InCall(p) == sess.procs[p].pc \in {"read", "truncated"}

\* C27: whatever the interleaving of the hook processes, the calls of
\* _get_next_sequence for one session return different numbers, the
\* numbers 0, 1, 2, ... without a gap, and the counter of a session is the
\* number of calls made for it, whatever calls other sessions made.
C27_SequenceIsAtomic ==
    \A sid \in Sessions :
        /\ \A p1, p2 \in Returned(sid) :
              p1 # p2 => sess.procs[p1].seq # sess.procs[p2].seq
        /\ {sess.procs[p].seq : p \in Returned(sid)} =
              0..(Cardinality(Returned(sid)) - 1)
        /\ (\A p \in HookProcs : ~InCall(p)) =>
              /\ sess.file.whole
              /\ StateGet(sess.file.state, sid) = Cardinality(Returned(sid))

\* The traces a process appended to traces.jsonl.
TracesBy(p) == {i \in 1..Len(sess.traces) : sess.traces[i].by = p}

\* C30: a hook process that handled a file-edit event has appended exactly
\* one trace, and that trace carries the sequence number the session gave.
C30_OneTracePerFileEdit ==
    \A p \in HookProcs :
        (sess.procs[p].pc = "done" /\ sess.procs[p].event \in FileEditEvents) =>
            /\ Cardinality(TracesBy(p)) = 1
            /\ \A i \in TracesBy(p) :
                  sess.traces[i].edit_sequence = sess.procs[p].seq

(***************************************************************************)
(* The blame query in remote storage mode                                  *)
(***************************************************************************)
\* What urlopen does with the POST to /api/v1/blame.
ServiceOutcomes == {"ok", "http_error", "unreachable"}

\* An attribution the service answers for a segment it was sent.
RemoteAttribution(seg) ==
    [start_line |-> seg.start_line, end_line |-> seg.end_line,
     tier |-> 2, confidence |-> 950,
     trace_id |-> "t1", contributor_type |-> "ai",
     commit_sha |-> seg.commit_sha,
     signals |-> <<"commit_link">>, source |-> NoneVal]

\* The "attributions" of the service's answer: any of the segments sent.
ServiceAnswers(remote_segments) ==
    {[i \in 1..Len(kept) |-> RemoteAttribution(kept[i])] :
        kept \in {SeqFilter(remote_segments, K) :
                     K \in SUBSET SeqRange(remote_segments)}}

\* blame.py _blame_remote: what the call returns for a repository, with
\* or without credentials, for an outcome and an answer of the service.
blame_remote(credentials, blame_segments, q0, service, answer) ==
    LET split == IF DOMAIN q0.ledgers # {}
                 THEN attribute_from_ledger(blame_segments, q0.ledgers,
                                            q0.file_path)
                 ELSE [attributed |-> <<>>, remaining |-> blame_segments]
    IN IF split.remaining = <<>> THEN split.attributed
       ELSE IF ~credentials THEN split.attributed
       ELSE IF service # "ok" THEN <<>>
       ELSE SortByLines(split.attributed \o answer)

\* blame.py lines 1319-1323: blame_file in remote mode loads the local
\* ledgers and calls _blame_remote.
BlameRemote ==
    /\ rem.pc = "idle"
    /\ \E q0 \in {r \in LedgerRepos : r.traces = <<>>},
          credentials \in BOOLEAN, service \in ServiceOutcomes :
          LET segments == group_into_segments(q0.records)
              split == IF DOMAIN q0.ledgers # {}
                       THEN attribute_from_ledger(segments, q0.ledgers,
                                                  q0.file_path)
                       ELSE [attributed |-> <<>>, remaining |-> segments]
          IN \E answer \in ServiceAnswers(split.remaining) :
                rem' = [pc |-> "done", credentials |-> credentials,
                        service |-> service,
                        ledger_results |-> split.attributed,
                        remote_segments |-> split.remaining,
                        result |-> blame_remote(credentials, segments, q0,
                                                service, answer)]
    /\ UNCHANGED remoteOthers

\* The query returns; the next one starts afresh.
RemoteReturn ==
    /\ rem.pc = "done"
    /\ rem' = NoRemote
    /\ UNCHANGED remoteOthers

RemoteInit ==
    /\ store = <<>>
    /\ rw = NoRewrite
    /\ AllIdle

RemoteNext == BlameRemote \/ RemoteReturn

SpecRemote == RemoteInit /\ [][RemoteNext]_vars

\* C28: in remote mode every attribution the local ledgers gave is in the
\* result of _blame_remote, whatever the service did and whether or not the
\* credentials were there.
C28_LedgerResultsSurviveTheService ==
    rem.pc = "done" =>
        \A n \in 1..Len(rem.ledger_results) :
            \E i \in 1..Len(rem.result) :
                /\ rem.result[i] = rem.ledger_results[n]
                /\ rem.result[i].source = "ledger"

(***************************************************************************)
(* The tier on any signals a candidate can have                            *)
(***************************************************************************)
\* What _score_trace_local can find for a candidate: each test on its own,
\* and at most one of the two range signals.
Findings ==
    [commit_link : BOOLEAN, revision_parent : BOOLEAN,
     range : {"none", "range_match", "range_overlap"},
     content_hash : BOOLEAN, timestamp_match : BOOLEAN]

\* blame.py lines 502-548: the signals in the order they are appended.
SignalsOf(f) ==
    (IF f.commit_link THEN <<"commit_link">> ELSE <<>>)
    \o (IF f.revision_parent THEN <<"revision_parent">> ELSE <<>>)
    \o (IF f.range # "none" THEN <<f.range>> ELSE <<>>)
    \o (IF f.content_hash THEN <<"content_hash">> ELSE <<>>)
    \o (IF f.timestamp_match THEN <<"timestamp_match">> ELSE <<>>)

\* blame.py lines 864-885: the winning candidate with its score, and the
\* tier it is given.
Graded(signals) ==
    FinalTier([idx |-> 1, score |-> SumWeights(signals), signals |-> signals])

\* Two signal lists of one candidate, the first with no signal the second
\* lacks, are scored and graded.
TierCall ==
    /\ ~evid.called
    /\ \E f1 \in Findings, f2 \in Findings :
          /\ SeqRange(SignalsOf(f1)) \subseteq SeqRange(SignalsOf(f2))
          /\ evid' = [called |-> TRUE,
                      fewer |-> SignalsOf(f1), more |-> SignalsOf(f2),
                      fewer_tier |-> Graded(SignalsOf(f1)),
                      more_tier |-> Graded(SignalsOf(f2))]
    /\ UNCHANGED tierOthers

\* The attribution is built and the next segment is taken up.
TierReturn ==
    /\ evid.called
    /\ evid' = NoGrade
    /\ UNCHANGED tierOthers

TierInit ==
    /\ store = <<>>
    /\ rw = NoRewrite
    /\ AllIdle

TierNext == TierCall \/ TierReturn

SpecTier == TierInit /\ [][TierNext]_vars

\* Tier 1 is the strongest, no tier the weakest.
Strength(tier) == IF tier = NoTier THEN 0 ELSE 7 - tier

\* C29: with more signals the final tier is at least as strong; tier 1 is
\* given only with commit_link and content_hash and a score of 95 or more.
C29_TierIsMonotonic ==
    evid.called =>
        /\ Strength(evid.more_tier) >= Strength(evid.fewer_tier)
        /\ \A signals \in {evid.fewer, evid.more} :
              Graded(signals) = 1 =>
                  /\ {"commit_link", "content_hash"} \subseteq SeqRange(signals)
                  /\ SumWeights(signals) >= 95

\* C29 happens: commit_link alone is stopped by the evidence gate, and
\* with the signals added it reaches tier 1.
C29_Witness ==
    /\ evid.called
    /\ evid.fewer = <<"commit_link">>
    /\ evid.fewer_tier = NoTier
    /\ evid.more_tier = 1

====
